---------------------------- MODULE Spec2Model ----------------------------
(***************************************************************************)
(* Foundry Character Vault: the dnd5e derived-statistics engine            *)
(* (abilityMod, proficiencyBonus, parseFlatBonus, dnd5eDerived,            *)
(* extractACFromEffects, computeACArmorParts, computeAC) of                *)
(* src/unnamed/part_000, modelled over JavaScript values, the page around  *)
(* it (initialise, roster, selection, search, import) and the earlier      *)
(* computeAC of src/app.js.                                                *)
(*                                                                         *)
(* A JavaScript value is a record [t, k, n, d, s]:                         *)
(*   t  the type tag: "undefined", "null", "bool", "num", "str", "obj"     *)
(*   k  for a number: "fin", "negzero", "nan", "pinf", "ninf"              *)
(*   n,d  for a finite number the reduced fraction n/d with d > 0;         *)
(*        for a boolean n = 1 (true) or 0 (false)                          *)
(*   s  for a string its characters, a sequence of one-character strings   *)
(*   an object ("obj") is told from another by n                           *)
(* A JavaScript number on its own is the record [k, n, d].                 *)
(***************************************************************************)
EXTENDS Integers, Sequences, FiniteSets, TLC

VARIABLES
    arg,      \* the argument handed to a scalar helper (a JS value)
    fn,       \* which scalar helper ran last ("none" before any call)
    ret,      \* what that helper returned (a JS number)
    actor,    \* the character document being rendered
    derived,  \* DerivedStats of the last render (dnd5eDerived)
    acValue,  \* armour class of the last render (computeAC), a JS number
    pc,       \* "loaded" before the render, "rendered" after it, "raised"
              \* when the render threw
    evaluated,    \* the expressions the last render handed to Function
    allPayloads,  \* the loaded payloads, in roster order: their documents
                  \* when renders are studied, their entries (id, name,
                  \* payload, corpus) when the page is
    shown,        \* per payload, what its last render returned
    selectedId,   \* the id of the last roster node clicked, null before
    roster,       \* the nodes painted in the roster
    sheet,        \* the sheet: <<>> when empty, <<p>> showing payload p
    searchText,   \* the text of the search box
    stored,       \* the payload list kept in localStorage
    server,       \* what the manifest and the payload files answer
    tasks         \* the asynchronous runs waiting at an await

scalarVars == <<arg, fn, ret>>

renderVars == <<actor, derived, acValue, pc, evaluated>>

pageVars == <<selectedId, roster, sheet, searchText, stored, server, tasks>>

vaultVars == <<allPayloads, shown, pageVars>>

engineVars == <<actor, scalarVars, renderVars, shown>>

vars == <<arg, fn, ret, actor, derived, acValue, pc, evaluated, allPayloads, shown,
          selectedId, roster, sheet, searchText, stored, server, tasks>>

---------------------------------------------------------------------------
(* Bounds of the model                                                     *)

\* scores and levels run from -MaxNegScore to MaxScore
MaxNegScore == 3
MaxScore == 24
MaxItems == 2
MaxChanges == 3
MaxFormulaLen == 3
MaxBonusLen == 4
MaxPayloads == 2

MaxTasks == 2

MaxStored == 2

---------------------------------------------------------------------------
(* Integer helpers                                                         *)

Abs(i) == IF i < 0 THEN -i ELSE i

Min2(a, b) == IF a <= b THEN a ELSE b

RECURSIVE Gcd(_, _)
Gcd(a, b) == IF b = 0 THEN a ELSE Gcd(b, a % b)

\* floor(n/d) for d > 0
FloorDiv(n, d) == n \div d

RECURSIVE Pow10(_)
Pow10(e) == IF e = 0 THEN 1 ELSE 10 * Pow10(e - 1)

---------------------------------------------------------------------------
(* JavaScript numbers (IEEE doubles, kept exact as fractions)              *)

Fin(n, d) ==
    LET g == Gcd(Abs(n), Abs(d))
        sg == IF d < 0 THEN -1 ELSE 1
    IN  [k |-> "fin", n |-> sg * (n \div g), d |-> sg * (d \div g)]

IntN(i) == [k |-> "fin", n |-> i, d |-> 1]

NaN == [k |-> "nan", n |-> 0, d |-> 1]

PInf == [k |-> "pinf", n |-> 0, d |-> 1]

NInf == [k |-> "ninf", n |-> 0, d |-> 1]

NegZero == [k |-> "negzero", n |-> 0, d |-> 1]

\* Number.isFinite on a JS number
NumIsFinite(x) == x.k \in {"fin", "negzero"}

IsZero(x) == x.k = "negzero" \/ (x.k = "fin" /\ x.n = 0)

IsInf(x) == x.k \in {"pinf", "ninf"}

\* the sign bit of a number that is not NaN
IsNeg(x) == x.k \in {"negzero", "ninf"} \/ (x.k = "fin" /\ x.n < 0)

\* -0 === 0 in JavaScript: numeric equality of two numbers
NumEq(x, y) ==
    /\ x.k # "nan"
    /\ y.k # "nan"
    /\ \/ (IsZero(x) /\ IsZero(y))
       \/ (x.k = y.k /\ x.n = y.n /\ x.d = y.d)

\* x < y for numbers (false when either is NaN)
NumLess(x, y) ==
    CASE x.k = "nan" \/ y.k = "nan" -> FALSE
      [] x.k = "pinf" -> FALSE
      [] y.k = "ninf" -> FALSE
      [] x.k = "ninf" -> TRUE
      [] y.k = "pinf" -> TRUE
      [] OTHER -> x.n * y.d < y.n * x.d

NumNeg(x) ==
    CASE x.k = "nan" -> NaN
      [] x.k = "pinf" -> NInf
      [] x.k = "ninf" -> PInf
      [] x.k = "negzero" -> IntN(0)
      [] x.n = 0 -> NegZero
      [] OTHER -> [k |-> "fin", n |-> -x.n, d |-> x.d]

NumAdd(x, y) ==
    CASE x.k = "nan" \/ y.k = "nan" -> NaN
      [] IsInf(x) /\ IsInf(y) -> IF x.k = y.k THEN x ELSE NaN
      [] IsInf(x) -> x
      [] IsInf(y) -> y
      [] x.k = "negzero" -> y
      [] y.k = "negzero" -> x
      [] OTHER -> Fin(x.n * y.d + y.n * x.d, x.d * y.d)

NumSub(x, y) == NumAdd(x, NumNeg(y))

SignedZero(neg) == IF neg THEN NegZero ELSE IntN(0)

SignedInf(neg) == IF neg THEN NInf ELSE PInf

NumMul(x, y) ==
    CASE x.k = "nan" \/ y.k = "nan" -> NaN
      [] (IsInf(x) /\ IsZero(y)) \/ (IsZero(x) /\ IsInf(y)) -> NaN
      [] IsInf(x) \/ IsInf(y) -> SignedInf(IsNeg(x) # IsNeg(y))
      [] IsZero(x) \/ IsZero(y) -> SignedZero(IsNeg(x) # IsNeg(y))
      [] OTHER -> Fin(x.n * y.n, x.d * y.d)

NumDiv(x, y) ==
    CASE x.k = "nan" \/ y.k = "nan" -> NaN
      [] IsInf(x) /\ IsInf(y) -> NaN
      [] IsZero(x) /\ IsZero(y) -> NaN
      [] IsInf(x) \/ IsZero(y) -> SignedInf(IsNeg(x) # IsNeg(y))
      [] IsInf(y) \/ IsZero(x) -> SignedZero(IsNeg(x) # IsNeg(y))
      [] OTHER -> Fin(x.n * y.d, x.d * y.n)

\* Math.floor
NumFloor(x) ==
    IF x.k = "fin" THEN IntN(FloorDiv(x.n, x.d)) ELSE x

\* Math.min of two numbers
NumMin(x, y) ==
    CASE x.k = "nan" \/ y.k = "nan" -> NaN
      [] IsZero(x) /\ IsZero(y) -> IF x.k = "negzero" THEN x ELSE y
      [] NumLess(y, x) -> y
      [] OTHER -> x

\* ToBoolean of a number: NaN and the zeros are falsy
NumTruthy(x) == ~(x.k = "nan" \/ IsZero(x))

---------------------------------------------------------------------------
(* JavaScript values                                                       *)

Undefined == [t |-> "undefined", k |-> "", n |-> 0, d |-> 1, s |-> <<>>]

Null == [t |-> "null", k |-> "", n |-> 0, d |-> 1, s |-> <<>>]

Bool(b) == [t |-> "bool", k |-> "", n |-> IF b THEN 1 ELSE 0, d |-> 1, s |-> <<>>]

Num(x) == [t |-> "num", k |-> x.k, n |-> x.n, d |-> x.d, s |-> <<>>]

NumI(i) == Num(IntN(i))

Str(cs) == [t |-> "str", k |-> "", n |-> 0, d |-> 1, s |-> cs]

\* an object, told from another by its number
Obj(id) == [t |-> "obj", k |-> "", n |-> id, d |-> 1, s |-> <<>>]

\* the number held by a value of type number
NumOf(v) == [k |-> v.k, n |-> v.n, d |-> v.d]

\* v == null (loose): undefined or null
IsNullish(v) == v.t \in {"undefined", "null"}

\* Number.isFinite(v): true only for a value of type number that is finite
IsFiniteNumber(v) == v.t = "num" /\ NumIsFinite(NumOf(v))

Digits == {"0", "1", "2", "3", "4", "5", "6", "7", "8", "9"}

DigitVal(c) ==
    CASE c = "0" -> 0 [] c = "1" -> 1 [] c = "2" -> 2 [] c = "3" -> 3
      [] c = "4" -> 4 [] c = "5" -> 5 [] c = "6" -> 6 [] c = "7" -> 7
      [] c = "8" -> 8 [] c = "9" -> 9

WhiteSpace == {" "}

AllDigits(cs) == \A i \in 1..Len(cs) : cs[i] \in Digits

\* the decimal value of a sequence of digits
RECURSIVE DecVal(_)
DecVal(cs) ==
    IF cs = <<>> THEN 0
    ELSE 10 * DecVal(SubSeq(cs, 1, Len(cs) - 1)) + DigitVal(cs[Len(cs)])

\* String.prototype.trim
RECURSIVE TrimLeft(_)
TrimLeft(cs) ==
    IF cs # <<>> /\ Head(cs) \in WhiteSpace THEN TrimLeft(Tail(cs)) ELSE cs

RECURSIVE TrimRight(_)
TrimRight(cs) ==
    IF cs # <<>> /\ cs[Len(cs)] \in WhiteSpace
    THEN TrimRight(SubSeq(cs, 1, Len(cs) - 1))
    ELSE cs

Trim(cs) == TrimRight(TrimLeft(cs))

\* StringToNumber on the characters the model's strings are made of:
\* blank text is 0, an optionally signed decimal literal (digits with at
\* most one ".") is its value, "Infinity" is infinite, anything else NaN.
UnsignedToNumber(cs) ==
    LET dots == {i \in 1..Len(cs) : cs[i] = "."}
    IN  IF cs = <<"I", "n", "f", "i", "n", "i", "t", "y">> THEN PInf
        ELSE IF dots = {} THEN
            IF cs # <<>> /\ AllDigits(cs) THEN IntN(DecVal(cs)) ELSE NaN
        ELSE IF Cardinality(dots) > 1 THEN NaN
        ELSE LET p == CHOOSE i \in dots : TRUE
                 ip == SubSeq(cs, 1, p - 1)
                 fp == SubSeq(cs, p + 1, Len(cs))
             IN  IF Len(cs) > 1 /\ AllDigits(ip) /\ AllDigits(fp)
                 THEN Fin(DecVal(ip \o fp), Pow10(Len(fp)))
                 ELSE NaN

TrimmedToNumber(t) ==
    IF t = <<>> THEN IntN(0)
    ELSE IF Head(t) = "+" THEN UnsignedToNumber(Tail(t))
    ELSE IF Head(t) = "-" THEN NumNeg(UnsignedToNumber(Tail(t)))
    ELSE UnsignedToNumber(t)

StringToNumber(cs) == TrimmedToNumber(Trim(cs))

\* Number(v)
ToNumber(v) ==
    CASE v.t = "undefined" -> NaN
      [] v.t = "null" -> IntN(0)
      [] v.t = "bool" -> IntN(v.n)
      [] v.t = "num" -> NumOf(v)
      [] v.t = "str" -> StringToNumber(v.s)

---------------------------------------------------------------------------
(* dnd5e derived maths                                                     *)

abilityMod_trunc(score) ==
    LET s == ToNumber(score)
        q == NumDiv(NumSub(s, IntN(10)), IntN(2))
    IN  IF ~NumIsFinite(s) THEN IntN(0)
        ELSE IF IsNeg(q) THEN NumNeg(NumFloor(NumNeg(q))) ELSE NumFloor(q)

abilityMod(score) ==
    LET s == ToNumber(score)
    IN  IF ~NumIsFinite(s) THEN IntN(0)
        ELSE NumFloor(NumDiv(NumSub(s, IntN(10)), IntN(2)))

proficiencyBonus_div5(level) ==
    LET l == ToNumber(level)
    IN  IF ~NumIsFinite(l) \/ ~NumLess(IntN(0), l) THEN IntN(0)
        ELSE NumAdd(IntN(2), NumFloor(NumDiv(NumSub(l, IntN(1)), IntN(5))))

proficiencyBonus(level) ==
    LET l == ToNumber(level)
    IN  IF ~NumIsFinite(l) \/ ~NumLess(IntN(0), l) THEN IntN(0)
        ELSE NumAdd(IntN(2), NumFloor(NumDiv(NumSub(l, IntN(1)), IntN(4))))

\* ToBoolean(v)
Truthy(v) ==
    CASE v.t = "undefined" -> FALSE
      [] v.t = "null" -> FALSE
      [] v.t = "bool" -> v.n = 1
      [] v.t = "num" -> NumTruthy(NumOf(v))
      [] v.t = "str" -> v.s # <<>>
      [] v.t = "obj" -> TRUE

\* v ?? w
Coalesce(v, w) == IF IsNullish(v) THEN w ELSE v

\* Number(v) || 0
NumberOrZero(v) == IF NumTruthy(ToNumber(v)) THEN ToNumber(v) ELSE IntN(0)

RECURSIVE SumNums(_)
SumNums(xs) ==
    IF xs = <<>> THEN IntN(0)
    ELSE NumAdd(SumNums(SubSeq(xs, 1, Len(xs) - 1)), xs[Len(xs)])

IsClassItem(i) == i.type = "class"

\* the levels of the class items, each through Number(levels ?? 0)
ClassLevels(classes) ==
    [j \in 1..Len(classes) |-> ToNumber(Coalesce(classes[j].levels, NumI(0)))]

\* lvl || explicit || 0
FirstTruthyLevel(lvl, explicit) ==
    IF NumTruthy(lvl) THEN lvl
    ELSE IF NumTruthy(explicit) THEN explicit
    ELSE IntN(0)

\* payload?.actor || payload?.data?.actor || payload?.document || payload,
\* on a payload kept as the values of those three lookups and itself
actorFromPayload_documentFirst(payload) ==
    IF Truthy(payload.actor) THEN payload.actor
    ELSE IF Truthy(payload.document) THEN payload.document
    ELSE IF Truthy(payload.dataActor) THEN payload.dataActor
    ELSE payload.self

actorFromPayload(payload) ==
    IF Truthy(payload.actor) THEN payload.actor
    ELSE IF Truthy(payload.dataActor) THEN payload.dataActor
    ELSE IF Truthy(payload.document) THEN payload.document
    ELSE payload.self

\* items.filter raises a TypeError when actor.items is truthy and not a list
totalLevelRaises(a) == a.itemsIs \in {"object", "string", "number"}

totalLevel(a) ==
    FirstTruthyLevel(SumNums(ClassLevels(SelectSeq(a.items, IsClassItem))),
                     ToNumber(Coalesce(a.detailsLevel, NumI(0))))

AbilityNames == {"str", "dex", "con", "int", "wis", "cha"}


---------------------------------------------------------------------------
(* parseFlatBonus                                                          *)

\* String(v) for the values that are not already strings
ToStringChars(v) ==
    CASE v.t = "str" -> v.s
      [] v.t = "bool" -> IF v.n = 1 THEN <<"t", "r", "u", "e">>
                         ELSE <<"f", "a", "l", "s", "e">>
      [] OTHER -> <<>>

HasDiceLetter_lowerOnly(cs) ==
    \E i \in 1..(Len(cs) - 1) : cs[i] = "d" /\ cs[i + 1] \in Digits

\* /[dD]\d/.test(cs)
HasDiceLetter(cs) ==
    \E i \in 1..(Len(cs) - 1) : cs[i] \in {"d", "D"} /\ cs[i + 1] \in Digits

\* the length of the run of digits that starts at position i
RECURSIVE DigitRun(_, _)
DigitRun(cs, i) ==
    IF i <= Len(cs) /\ cs[i] \in Digits THEN 1 + DigitRun(cs, i + 1) ELSE 0

RECURSIVE MatchSignedInts_unsigned(_)
MatchSignedInts_unsigned(cs) ==
    IF cs = <<>> THEN <<>>
    ELSE IF Head(cs) \in Digits THEN
        <<IntN(DecVal(SubSeq(cs, 1, DigitRun(cs, 1))))>>
          \o MatchSignedInts_unsigned(SubSeq(cs, DigitRun(cs, 1) + 1, Len(cs)))
    ELSE MatchSignedInts_unsigned(Tail(cs))

\* cs.match(/[+-]?\d+/g) mapped through Number: the matches, left to right
RECURSIVE MatchSignedInts(_)
MatchSignedInts(cs) ==
    IF cs = <<>> THEN <<>>
    ELSE IF Head(cs) \in {"+", "-"} /\ DigitRun(cs, 2) > 0 THEN
        LET r == DigitRun(cs, 2)
            m == IntN(DecVal(SubSeq(cs, 2, r + 1)))
        IN  <<IF Head(cs) = "-" THEN NumNeg(m) ELSE m>>
              \o MatchSignedInts(SubSeq(cs, r + 2, Len(cs)))
    ELSE IF Head(cs) \in Digits THEN
        LET r == DigitRun(cs, 1)
        IN  <<IntN(DecVal(SubSeq(cs, 1, r)))>>
              \o MatchSignedInts(SubSeq(cs, r + 1, Len(cs)))
    ELSE MatchSignedInts(Tail(cs))

\* reduce((a, b) => a + b, 0)
RECURSIVE SumFromZero(_)
SumFromZero(xs) ==
    IF xs = <<>> THEN IntN(0)
    ELSE NumAdd(SumFromZero(SubSeq(xs, 1, Len(xs) - 1)), xs[Len(xs)])

\* the string branch, on the trimmed text
ParseFlatBonusText(s) ==
    IF s = <<>> THEN IntN(0)
    ELSE IF HasDiceLetter(s) THEN IntN(0)
    ELSE SumFromZero(MatchSignedInts(s))

parseFlatBonus(v) ==
    IF IsNullish(v) THEN IntN(0)
    ELSE IF v.t = "num" THEN (IF NumIsFinite(NumOf(v)) THEN NumOf(v) ELSE IntN(0))
    ELSE ParseFlatBonusText(Trim(ToStringChars(v)))

---------------------------------------------------------------------------
(* AC computation (dnd5e): active effects                                  *)

AE_MODE_CUSTOM == 0
AE_MODE_ADD == 2
AE_MODE_OVERRIDE == 5

isItemActiveForBonuses(item) ==
    \/ Truthy(item.equipped)
    \/ NumEq(ToNumber(Coalesce(item.attunement, NumI(0))), IntN(2))

\* the effects of one item that collectTransferEffects pushes
KeepsEffect(ef) == ~ef.disabled /\ (ef.transfer \/ ef.daeTransfer)

ItemTransferEffects(item) ==
    IF ~isItemActiveForBonuses(item) THEN <<>>
    ELSE SelectSeq(item.effects, KeepsEffect)

RECURSIVE ItemsTransferEffects(_)
ItemsTransferEffects(items) ==
    IF items = <<>> THEN <<>>
    ELSE ItemTransferEffects(Head(items)) \o ItemsTransferEffects(Tail(items))

collectTransferEffects(a) ==
    (IF a.effectsIs = "array" THEN a.effects ELSE <<>>) \o ItemsTransferEffects(a.items)

\* keyRaw.replace(/^data\./, "system."), on a key kept as its dotted segments
NormaliseKey(key) ==
    IF Len(key) > 1 /\ key[1] = "data" THEN <<"system">> \o Tail(key) ELSE key

\* lower-casing of a key segment (the patterns carry the i flag)
LowerSeg(seg) ==
    CASE seg = "System" -> "system"
      [] seg = "Attributes" -> "attributes"
      [] seg = "AC" -> "ac"
      [] seg = "Value" -> "value"
      [] seg = "Flat" -> "flat"
      [] seg = "Bonus" -> "bonus"
      [] OTHER -> seg

\* /system\.attributes\.ac\.<last>$/i on the dotted segments of a key
EndsWithACPath(key, lasts) ==
    LET n == Len(key)
    IN  /\ n >= 4
        /\ LowerSeg(key[n - 3]) = "system"
        /\ LowerSeg(key[n - 2]) = "attributes"
        /\ LowerSeg(key[n - 1]) = "ac"
        /\ LowerSeg(key[n]) \in lasts

isACValue(key) == EndsWithACPath(key, {"value", "flat"})

isACBonus(key) == EndsWithACPath(key, {"bonus"})

\* one pass of the inner loop body over a change, on the pair (add, override)
ApplyChange_bonusOverrideSetsOverride(acc, ch) ==
    LET key == NormaliseKey(ch.key)
        mode == ToNumber(Coalesce(ch.mode, NumI(AE_MODE_CUSTOM)))
        val == parseFlatBonus(ch.value)
    IN  IF ch.key = <<>> THEN acc
        ELSE IF isACValue(key) THEN
            IF NumEq(mode, IntN(AE_MODE_OVERRIDE)) THEN [acc EXCEPT !.override = Num(val)]
            ELSE IF NumEq(mode, IntN(AE_MODE_ADD)) THEN [acc EXCEPT !.add = NumAdd(@, val)]
            ELSE acc
        ELSE IF isACBonus(key) THEN
            IF NumEq(mode, IntN(AE_MODE_ADD)) THEN [acc EXCEPT !.add = NumAdd(@, val)]
            ELSE IF NumEq(mode, IntN(AE_MODE_OVERRIDE)) THEN [acc EXCEPT !.override = Num(val)]
            ELSE acc
        ELSE acc

\* the branches of the loop body, on the change's raw key, normalised key,
\* mode and parsed value
ApplyChangeWith(acc, keyRaw, key, mode, val) ==
    IF keyRaw = <<>> THEN acc
    ELSE IF isACValue(key) THEN
        IF NumEq(mode, IntN(AE_MODE_OVERRIDE)) THEN [acc EXCEPT !.override = Num(val)]
        ELSE IF NumEq(mode, IntN(AE_MODE_ADD)) THEN [acc EXCEPT !.add = NumAdd(@, val)]
        ELSE acc
    ELSE IF isACBonus(key) THEN
        IF NumEq(mode, IntN(AE_MODE_ADD)) THEN [acc EXCEPT !.add = NumAdd(@, val)]
        ELSE IF NumEq(mode, IntN(AE_MODE_OVERRIDE)) THEN [acc EXCEPT !.add = val]
        ELSE acc
    ELSE acc

ApplyChange(acc, ch) ==
    ApplyChangeWith(acc, ch.key, NormaliseKey(ch.key),
                    ToNumber(Coalesce(ch.mode, NumI(AE_MODE_CUSTOM))),
                    parseFlatBonus(ch.value))

\* the changes of a list of effects, in effect order then change order
RECURSIVE AllChanges(_)
AllChanges(effects) ==
    IF effects = <<>> THEN <<>>
    ELSE Head(effects).changes \o AllChanges(Tail(effects))

\* the two nested loops: ApplyChange over every change, from (0, null)
RECURSIVE ScanChanges(_)
ScanChanges(chs) ==
    IF chs = <<>> THEN [add |-> IntN(0), override |-> Null]
    ELSE ApplyChange(ScanChanges(SubSeq(chs, 1, Len(chs) - 1)), chs[Len(chs)])

extractACFromEffects(a) == ScanChanges(AllChanges(collectTransferEffects(a)))

---------------------------------------------------------------------------
(* AC computation (dnd5e): armour and shields                              *)

getArmorMagicBonus(item) ==
    NumberOrZero(Coalesce(item.armorMagicalBonus,
                 Coalesce(item.armorMagicBonus,
                 Coalesce(item.sysMagicalBonus,
                 Coalesce(item.sysMagicBonus, NumI(0))))))

\* Array.prototype.sort with the comparator (a, b) => b.total - a.total:
\* a stable sort into descending order of total
RECURSIVE InsertByTotal_beforeEqual(_, _)
InsertByTotal_beforeEqual(sorted, x) ==
    IF sorted = <<>> THEN <<x>>
    ELSE IF ~NumLess(x.total, Head(sorted).total) THEN <<x>> \o sorted
    ELSE <<Head(sorted)>> \o InsertByTotal_beforeEqual(Tail(sorted), x)

RECURSIVE InsertByTotal(_, _)
InsertByTotal(sorted, x) ==
    IF sorted = <<>> THEN <<x>>
    ELSE IF NumLess(Head(sorted).total, x.total) THEN <<x>> \o sorted
    ELSE <<Head(sorted)>> \o InsertByTotal(Tail(sorted), x)

RECURSIVE SortByTotalDesc(_)
SortByTotalDesc(xs) ==
    IF xs = <<>> THEN <<>>
    ELSE InsertByTotal(SortByTotalDesc(SubSeq(xs, 1, Len(xs) - 1)), xs[Len(xs)])

\* base + magical bonus of one item
ItemTotal(item) ==
    NumAdd(ToNumber(Coalesce(item.armorValue, NumI(0))), getArmorMagicBonus(item))

\* shields.reduce((a, s) => a + base + magic, 0)
ShieldSum(shields) == SumFromZero([j \in 1..Len(shields) |-> ItemTotal(shields[j])])

IsEquippedItem_always(i) == TRUE

IsEquippedItem(i) == Truthy(i.equipped)

IsArmourItem(i) ==
    i.type = "equipment" /\ IsFiniteNumber(i.armorValue) /\ i.subtype # "shield"

IsShieldItem(i) ==
    i.type = "equipment" /\ IsFiniteNumber(i.armorValue) /\ i.subtype = "shield"

\* armours.map(...).sort(...)
RankArmours(armours) ==
    SortByTotalDesc([j \in 1..Len(armours) |->
                        [item |-> armours[j], total |-> ItemTotal(armours[j])]])

\* bestArmour is returned as hasBest (is there one) and dexCap (its
\* system.armor.dex, the only field of it that computeAC reads); sorted is
\* the list of armours with the best one first
ArmorPartsOf(sorted, shieldTotal) ==
    [hasBest |-> sorted # <<>>,
     dexCap |-> IF sorted # <<>> THEN sorted[1].armorDex ELSE Null,
     armourTotal |-> IF sorted # <<>>
                     THEN NumAdd(ToNumber(sorted[1].armorValue), getArmorMagicBonus(sorted[1]))
                     ELSE NumAdd(IntN(10), IntN(0)),
     shieldTotal |-> shieldTotal,
     acArmor |-> NumAdd(IF sorted # <<>>
                        THEN NumAdd(ToNumber(sorted[1].armorValue),
                                    getArmorMagicBonus(sorted[1]))
                        ELSE NumAdd(IntN(10), IntN(0)),
                        shieldTotal)]

ItemsOfRanked(ranked) == [j \in 1..Len(ranked) |-> ranked[j].item]

ArmorPartsOfEquipped(equipped) ==
    ArmorPartsOf(ItemsOfRanked(RankArmours(SelectSeq(equipped, IsArmourItem))),
                 ShieldSum(SelectSeq(equipped, IsShieldItem)))

computeACArmorParts_firstArmour(a) ==
    LET equipped == SelectSeq(a.items, IsEquippedItem)
    IN  ArmorPartsOf(SelectSeq(equipped, IsArmourItem),
                     ShieldSum(SelectSeq(equipped, IsShieldItem)))

\* actor.items after computeACArmorParts: filter and map build new arrays and
\* sort reorders the mapped one, so the document's own list keeps its order
ItemsAfterArmorParts_sortedInPlace(items) == ItemsOfRanked(RankArmours(items))

ItemsAfterArmorParts(items) == items

computeACArmorParts(a) == ArmorPartsOfEquipped(SelectSeq(a.items, IsEquippedItem))

---------------------------------------------------------------------------
(* The custom formula: substitution, whitelist and evaluation              *)
(*                                                                         *)
(* A formula is a sequence of symbols: a symbol is one of the token        *)
(* spellings below, kept whole, or a single character.                     *)

CtxTokens ==
    <<"@attributes.ac.armor", "@attributes.ac.shield", "@attributes.ac.base",
      "@attributes.ac.dex", "@attributes.ac.bonus",
      "@abilities.str.mod", "@abilities.dex.mod", "@abilities.con.mod",
      "@abilities.int.mod", "@abilities.wis.mod", "@abilities.cha.mod",
      "@attributes.prof">>

CtxTokenSet == {CtxTokens[i] : i \in 1..Len(CtxTokens)}

DigitChar(i) == CHOOSE c \in Digits : DigitVal(c) = i

RECURSIVE NatToChars(_)
NatToChars(i) ==
    IF i < 10 THEN <<DigitChar(i)>>
    ELSE NatToChars(i \div 10) \o <<DigitChar(i % 10)>>

\* String(x) for a number x; the documents of the model carry integers, so
\* every context value is an integer, NaN or infinite
NumToChars(x) ==
    CASE x.k = "nan" -> <<"N", "a", "N">>
      [] x.k = "pinf" -> <<"I", "n", "f", "i", "n", "i", "t", "y">>
      [] x.k = "ninf" -> <<"-", "I", "n", "f", "i", "n", "i", "t", "y">>
      [] x.k = "negzero" -> <<"0">>
      [] x.k = "fin" /\ x.d = 1 /\ x.n >= 0 -> NatToChars(x.n)
      [] x.k = "fin" /\ x.d = 1 /\ x.n < 0 -> <<"-">> \o NatToChars(-x.n)

\* expr.split(token).join(String(Number(val ?? 0))) for every token of ctx
RECURSIVE Substitute(_, _)
Substitute(formula, ctx) ==
    IF formula = <<>> THEN <<>>
    ELSE (IF Head(formula) \in DOMAIN ctx
          THEN NumToChars(ctx[Head(formula)])
          ELSE <<Head(formula)>>)
         \o Substitute(Tail(formula), ctx)

ArithmeticChars == Digits \cup {"+", "-", "*", "/", "(", ")", "."} \cup WhiteSpace

\* the whitelist test without its anchors: one digit is enough
IsSafeExpr_unanchored(expr) == \E i \in 1..Len(expr) : expr[i] \in Digits

\* /^[0-9+\-*/().\s]+$/.test(expr)
IsSafeExpr(expr) ==
    expr # <<>> /\ \A i \in 1..Len(expr) : expr[i] \in ArithmeticChars

(* Function(`return (${expr});`)() on a whitelisted expr: the JavaScript    *)
(* lexer and expression grammar restricted to the whitelisted characters.  *)

NumTok(x) == [ty |-> "num", op |-> "", val |-> x]

OpTok(o) == [ty |-> "op", op |-> o, val |-> NaN]

ErrTok == [ty |-> "err", op |-> "", val |-> NaN]

\* the value of a run of octal digits (a legacy octal literal such as 010)
RECURSIVE OctVal(_)
OctVal(cs) ==
    IF cs = <<>> THEN 0
    ELSE 8 * OctVal(SubSeq(cs, 1, Len(cs) - 1)) + DigitVal(cs[Len(cs)])

\* the numeric literal at the head of cs, whose leading run of digits has
\* length r: [tok, len]
LiteralWithRun(cs, r) ==
    LET ip == SubSeq(cs, 1, r)
        legacyOctal == r > 1 /\ ip[1] = "0" /\ \A i \in 1..r : DigitVal(ip[i]) < 8
        hasDot == r < Len(cs) /\ cs[r + 1] = "."
        f == IF hasDot THEN DigitRun(cs, r + 2) ELSE 0
        fp == SubSeq(cs, r + 2, r + 1 + f)
    IN  IF legacyOctal THEN [tok |-> NumTok(IntN(OctVal(ip))), len |-> r]
        ELSE IF ~hasDot THEN [tok |-> NumTok(IntN(DecVal(ip))), len |-> r]
        ELSE IF r = 0 /\ f = 0 THEN [tok |-> ErrTok, len |-> 1]
        ELSE [tok |-> NumTok(Fin(DecVal(ip \o fp), Pow10(f))), len |-> r + 1 + f]

NumericLiteral(cs) == LiteralWithRun(cs, DigitRun(cs, 1))

\* the position just after the first "*/" at or after position i, or 0
RECURSIVE CommentEnd(_, _)
CommentEnd(cs, i) ==
    IF i + 1 > Len(cs) THEN 0
    ELSE IF cs[i] = "*" /\ cs[i + 1] = "/" THEN i + 2
    ELSE CommentEnd(cs, i + 1)

RECURSIVE Lex(_)
RECURSIVE LexAfterLiteral(_, _)
RECURSIVE LexAfterComment(_, _)

LexAfterLiteral(cs, lit) == <<lit.tok>> \o Lex(SubSeq(cs, lit.len + 1, Len(cs)))

\* e is where the block comment ends, 0 when it never does
LexAfterComment(cs, e) == IF e = 0 THEN <<ErrTok>> ELSE Lex(SubSeq(cs, e, Len(cs)))

DoubledOp(c) == IF c = "+" THEN "++" ELSE IF c = "-" THEN "--" ELSE "**"

Lex(cs) ==
    IF cs = <<>> THEN <<>>
    ELSE IF Head(cs) \in WhiteSpace THEN Lex(Tail(cs))
    ELSE IF Head(cs) \in Digits \/ Head(cs) = "." THEN LexAfterLiteral(cs, NumericLiteral(cs))
    ELSE IF Len(cs) > 1 /\ Head(cs) = "/" /\ cs[2] = "/" THEN <<ErrTok>>
    ELSE IF Len(cs) > 1 /\ Head(cs) = "/" /\ cs[2] = "*" THEN
        LexAfterComment(cs, CommentEnd(cs, 3))
    ELSE IF Len(cs) > 1 /\ Head(cs) \in {"+", "-", "*"} /\ cs[2] = Head(cs) THEN
        <<OpTok(DoubledOp(Head(cs)))>> \o Lex(SubSeq(cs, 3, Len(cs)))
    ELSE <<OpTok(Head(cs))>> \o Lex(Tail(cs))

IsOp(ts, p, ops) == p <= Len(ts) /\ ts[p].ty = "op" /\ ts[p].op \in ops

ParseFail == [ok |-> FALSE, val |-> NaN, pos |-> 0]

RECURSIVE MulTimes(_, _)
MulTimes(x, n) == IF n = 0 THEN IntN(1) ELSE NumMul(MulTimes(x, n - 1), x)

AbsLessOne(x) == ~IsInf(x) /\ (IsZero(x) \/ Abs(x.n) < x.d)

AbsIsOne(x) == x.k = "fin" /\ Abs(x.n) = 1 /\ x.d = 1

\* x ** y; an exponent that is finite and not an integer is outside the
\* formulas of the model (the shortest one has more than MaxFormulaLen + 1
\* symbols) and has no case here
NumPow(x, y) ==
    CASE y.k = "nan" -> NaN
      [] y.k # "nan" /\ IsZero(y) -> IntN(1)
      [] y.k # "nan" /\ ~IsZero(y) /\ x.k = "nan" -> NaN
      [] x.k # "nan" /\ IsInf(y) /\ AbsIsOne(x) -> NaN
      [] x.k # "nan" /\ IsInf(y) /\ ~AbsIsOne(x) ->
            IF AbsLessOne(x) = (y.k = "pinf") THEN IntN(0) ELSE PInf
      [] x.k # "nan" /\ y.k = "fin" /\ y.n # 0 /\ y.d = 1 ->
            IF y.n > 0 THEN MulTimes(x, y.n)
            ELSE NumDiv(IntN(1), MulTimes(x, -y.n))

RECURSIVE ParseAdditive(_, _)
RECURSIVE AdditiveFrom(_, _)
RECURSIVE ParseAdditiveRest(_, _, _)
RECURSIVE AdditiveStep(_, _, _, _)
RECURSIVE ParseMultiplicative(_, _)
RECURSIVE MultiplicativeFrom(_, _)
RECURSIVE ParseMultiplicativeRest(_, _, _)
RECURSIVE MultiplicativeStep(_, _, _, _)
RECURSIVE ParseExponentiation(_, _)
RECURSIVE ExponentiationFrom(_, _, _)
RECURSIVE ParseUnary(_, _)
RECURSIVE ParsePrimary(_, _)

\* the closing parenthesis after the parenthesised expression r
CloseParen(ts, r) ==
    IF r.ok /\ IsOp(ts, r.pos, {")"}) THEN [r EXCEPT !.pos = @ + 1] ELSE ParseFail

\* PrimaryExpression: a numeric literal or a parenthesised expression
ParsePrimary(ts, p) ==
    IF p > Len(ts) THEN ParseFail
    ELSE IF ts[p].ty = "num" THEN [ok |-> TRUE, val |-> ts[p].val, pos |-> p + 1]
    ELSE IF IsOp(ts, p, {"("}) THEN CloseParen(ts, ParseAdditive(ts, p + 1))
    ELSE ParseFail

ApplyUnary(op, r) ==
    IF ~r.ok THEN ParseFail
    ELSE IF op = "-" THEN [r EXCEPT !.val = NumNeg(@)]
    ELSE r

\* UnaryExpression: + and - prefixes (++ and -- never have a valid operand)
ParseUnary(ts, p) ==
    IF IsOp(ts, p, {"+", "-"}) THEN ApplyUnary(ts[p].op, ParseUnary(ts, p + 1))
    ELSE ParsePrimary(ts, p)

ApplyPow(l, r) ==
    IF ~r.ok THEN ParseFail
    ELSE [ok |-> TRUE, val |-> NumPow(l.val, r.val), pos |-> r.pos]

\* ExponentiationExpression: right-associative, no unary operator on its base
ExponentiationFrom(ts, p, l) ==
    IF ~l.ok THEN ParseFail
    ELSE IF IsOp(ts, l.pos, {"**"}) THEN
        IF IsOp(ts, p, {"+", "-"}) THEN ParseFail
        ELSE ApplyPow(l, ParseExponentiation(ts, l.pos + 1))
    ELSE l

ParseExponentiation(ts, p) == ExponentiationFrom(ts, p, ParseUnary(ts, p))

MultiplicativeStep(ts, op, acc, r) ==
    IF ~r.ok THEN ParseFail
    ELSE ParseMultiplicativeRest(ts, r.pos,
             IF op = "*" THEN NumMul(acc, r.val) ELSE NumDiv(acc, r.val))

ParseMultiplicativeRest(ts, p, acc) ==
    IF IsOp(ts, p, {"*", "/"})
    THEN MultiplicativeStep(ts, ts[p].op, acc, ParseExponentiation(ts, p + 1))
    ELSE [ok |-> TRUE, val |-> acc, pos |-> p]

MultiplicativeFrom(ts, l) ==
    IF ~l.ok THEN ParseFail ELSE ParseMultiplicativeRest(ts, l.pos, l.val)

ParseMultiplicative(ts, p) == MultiplicativeFrom(ts, ParseExponentiation(ts, p))

AdditiveStep(ts, op, acc, r) ==
    IF ~r.ok THEN ParseFail
    ELSE ParseAdditiveRest(ts, r.pos,
             IF op = "+" THEN NumAdd(acc, r.val) ELSE NumSub(acc, r.val))

ParseAdditiveRest(ts, p, acc) ==
    IF IsOp(ts, p, {"+", "-"})
    THEN AdditiveStep(ts, ts[p].op, acc, ParseMultiplicative(ts, p + 1))
    ELSE [ok |-> TRUE, val |-> acc, pos |-> p]

AdditiveFrom(ts, l) ==
    IF ~l.ok THEN ParseFail ELSE ParseAdditiveRest(ts, l.pos, l.val)

ParseAdditive(ts, p) == AdditiveFrom(ts, ParseMultiplicative(ts, p))

\* the whole of the token list is one expression
WholeExpression(ts, r) ==
    IF r.ok /\ r.pos = Len(ts) + 1 THEN [ok |-> TRUE, val |-> r.val]
    ELSE [ok |-> FALSE, val |-> NaN]

EvalTokens(ts) == WholeExpression(ts, ParseAdditive(ts, 1))

\* Function(`return (${expr});`)(): [ok |-> no exception and a number came
\* back, val |-> that number]
EvalFunction(expr) == EvalTokens(<<OpTok("(")>> \o Lex(expr) \o <<OpTok(")")>>)

---------------------------------------------------------------------------
(* computeAC                                                               *)

---------------------------------------------------------------------------
(* dnd5eDerived: skill totals, passive Perception and the derived record   *)

\* what abilityMods[ability] finds beyond the six own properties: abilityMods
\* is an object literal, so a name of Object.prototype finds the inherited
\* member (three of them are modelled)
InheritedNames == {"constructor", "toString", "__proto__"}

Inherited(name) ==
    Obj(CASE name = "constructor" -> 1 [] name = "toString" -> 2 [] OTHER -> 3)

\* String(member), as one symbol
ObjectText(v) ==
    CASE v.n = 1 -> "function Object() { [native code] }"
      [] v.n = 2 -> "function toString() { [native code] }"
      [] OTHER -> "[object Object]"

JsText(v) ==
    CASE v.t = "obj" -> <<ObjectText(v)>>
      [] v.t = "num" -> NumToChars(NumOf(v))
      [] OTHER -> ToStringChars(v)

\* x + y: concatenation when either side is a string or an object
JsPlus(x, y) ==
    IF x.t \in {"str", "obj"} \/ y.t \in {"str", "obj"}
    THEN Str(JsText(x) \o JsText(y))
    ELSE Num(NumAdd(NumOf(x), NumOf(y)))

profComponentOf(r, prof) ==
    IF ~NumIsFinite(r) \/ ~NumLess(IntN(0), r) THEN IntN(0)
    ELSE IF r = Fin(1, 2) THEN NumFloor(NumDiv(prof, IntN(2)))
    ELSE IF r = IntN(1) THEN prof
    ELSE IF r = IntN(2) THEN NumMul(IntN(2), prof)
    ELSE NumFloor(NumMul(r, prof))

profComponent(rank, prof) == profComponentOf(ToNumber(Coalesce(rank, NumI(0))), prof)

\* ability && abilityMods[ability] != null ? abilityMods[ability] : 0; a
\* property name is one symbol
SkillBase(ability, mods) ==
    IF ~Truthy(ability) \/ ability.t # "str" THEN NumI(0)
    ELSE IF ability.s[1] \in AbilityNames THEN Num(mods[ability.s[1]])
    ELSE IF ability.s[1] \in InheritedNames THEN Inherited(ability.s[1])
    ELSE NumI(0)

SkillBonus(sk, a) ==
    NumAdd(NumAdd(parseFlatBonus(sk.check), parseFlatBonus(a.bonusesAbilitiesSkill)),
           parseFlatBonus(a.bonusesSkillsCheck))

SkillTotal(sk, a, prof, mods) ==
    JsPlus(JsPlus(SkillBase(sk.ability, mods), Num(profComponent(sk.value, prof))),
           Num(SkillBonus(sk, a)))

SkillKeys(a) == {a.skills[i].key : i \in 1..Len(a.skills)}

EntryOf(a, key) == a.skills[CHOOSE i \in 1..Len(a.skills) : a.skills[i].key = key]

SkillTotalsOf(a, prof, mods) ==
    [key \in SkillKeys(a) |-> SkillTotal(EntryOf(a, key), a, prof, mods)]

PassivePrcOf(a, totals) ==
    JsPlus(JsPlus(JsPlus(NumI(10),
                         IF "prc" \in DOMAIN totals THEN totals["prc"] ELSE NumI(0)),
                  Num(parseFlatBonus(IF "prc" \in SkillKeys(a)
                                     THEN EntryOf(a, "prc").passive ELSE Undefined))),
           Num(parseFlatBonus(a.bonusesSkillsPassive)))

DerivedOfTotals(a, level, prof, mods, totals) ==
    [level |-> level, prof |-> prof, abilityMods |-> mods,
     skillTotals |-> totals, passivePrc |-> PassivePrcOf(a, totals)]

DerivedOfMods(a, level, prof, mods) ==
    DerivedOfTotals(a, level, prof, mods, SkillTotalsOf(a, prof, mods))

DerivedAtLevel(a, level) ==
    DerivedOfMods(a, level, proficiencyBonus(Num(level)),
                  [ab \in AbilityNames |-> abilityMod(a.abilities[ab])])

dnd5eDerived(a) == DerivedAtLevel(a, totalLevel(a))

---------------------------------------------------------------------------
(* computeAC: Dexterity, bonus, custom formula and the tiers               *)

DexCapped_emptyCapIsZero(dexFull, dexCap) ==
    IF IsNullish(dexCap) THEN dexFull ELSE NumMin(dexFull, NumberOrZero(dexCap))

\* the Dex contribution: the full modifier, capped by the best armour's cap
DexCapped(dexFull, dexCap) ==
    IF IsNullish(dexCap) \/ dexCap = Str(<<>>) THEN dexFull
    ELSE NumMin(dexFull, NumberOrZero(dexCap))

\* sysBonus + effectAdd
TotalBonus(a, effectAdd) ==
    NumAdd(NumAdd(NumAdd(NumAdd(parseFlatBonus(a.acBonus),
                                parseFlatBonus(a.bonusesAcValue)),
                         parseFlatBonus(a.bonusesAcBonus)),
                  parseFlatBonus(a.bonusesAcAll)),
           effectAdd)

\* ctx, as a function from the token spellings to their values
CtxOfValues(vals) ==
    [tok \in CtxTokenSet |-> vals[CHOOSE i \in 1..Len(CtxTokens) : CtxTokens[i] = tok]]

Ctx(acArmor, shieldTotal, dexCapped, totalBonus, d) ==
    CtxOfValues(<<acArmor, shieldTotal, IntN(10), dexCapped, totalBonus,
                  d.abilityMods["str"], d.abilityMods["dex"], d.abilityMods["con"],
                  d.abilityMods["int"], d.abilityMods["wis"], d.abilityMods["cha"],
                  d.prof>>)

HasSymbol(formula, sym) == \E i \in 1..Len(formula) : formula[i] = sym

\* the custom formula path once the expression is substituted and evaluated:
\* [ok |-> it returned, val |-> what it returned]
CustomResult_alwaysAddsBonus(a, safe, r, totalBonus) ==
    IF a.acCalc = "custom" /\ a.acFormula.t = "str" /\ safe /\ r.ok /\ NumIsFinite(r.val)
    THEN [ok |-> TRUE, val |-> NumAdd(r.val, totalBonus)]
    ELSE [ok |-> FALSE, val |-> NaN]

CustomResult(a, safe, r, totalBonus) ==
    IF a.acCalc = "custom" /\ a.acFormula.t = "str" /\ safe /\ r.ok /\ NumIsFinite(r.val)
    THEN [ok |-> TRUE,
          val |-> IF ~HasSymbol(a.acFormula.s, "@attributes.ac.bonus")
                  THEN NumAdd(r.val, totalBonus)
                  ELSE r.val]
    ELSE [ok |-> FALSE, val |-> NaN]

CustomOfExpr(a, expr, totalBonus) ==
    CustomResult(a, IsSafeExpr(expr), EvalFunction(expr), totalBonus)

CustomOrHeuristic_baseOnFailure(custom, heuristic) ==
    IF custom.ok THEN custom.val ELSE IntN(10)

\* the custom path if it returned, else the heuristic default
CustomOrHeuristic(custom, heuristic) == IF custom.ok THEN custom.val ELSE heuristic

\* the tiers of computeAC, on its locals
ComputeACTiers_overrideFirst(a, d, parts, effectOverride, totalBonus, dexCapped) ==
    IF IsFiniteNumber(effectOverride) THEN NumAdd(ToNumber(effectOverride), totalBonus)
    ELSE IF IsFiniteNumber(a.acValue) THEN ToNumber(a.acValue)
    ELSE IF IsFiniteNumber(a.acFlat) THEN ToNumber(a.acFlat)
    ELSE CustomOrHeuristic(
            CustomOfExpr(a, Substitute(a.acFormula.s,
                                       Ctx(parts.acArmor, computeACArmorParts(a).shieldTotal,
                                           dexCapped, totalBonus, d)),
                         totalBonus),
            NumAdd(NumAdd(parts.acArmor, dexCapped), totalBonus))

ComputeACTiers(a, d, parts, effectOverride, totalBonus, dexCapped) ==
    IF IsFiniteNumber(a.acValue) THEN ToNumber(a.acValue)
    ELSE IF IsFiniteNumber(a.acFlat) THEN ToNumber(a.acFlat)
    ELSE IF IsFiniteNumber(effectOverride) THEN NumAdd(ToNumber(effectOverride), totalBonus)
    ELSE CustomOrHeuristic(
            CustomOfExpr(a, Substitute(a.acFormula.s,
                                       Ctx(parts.acArmor, computeACArmorParts(a).shieldTotal,
                                           dexCapped, totalBonus, d)),
                         totalBonus),
            NumAdd(NumAdd(parts.acArmor, dexCapped), totalBonus))

ComputeACWith(a, d, parts, fx) ==
    ComputeACTiers(a, d, parts, fx.override, TotalBonus(a, fx.add),
                   DexCapped(d.abilityMods["dex"], parts.dexCap))

computeAC(a, d) == ComputeACWith(a, d, computeACArmorParts(a), extractACFromEffects(a))

\* the expressions computeAC hands to Function: the substituted formula, when
\* no earlier tier returned and it passed the whitelist test
FunctionCallsOf(a, effectOverride, expr) ==
    IF IsFiniteNumber(a.acValue) \/ IsFiniteNumber(a.acFlat) THEN <<>>
    ELSE IF IsFiniteNumber(effectOverride) THEN <<>>
    ELSE IF a.acCalc = "custom" /\ a.acFormula.t = "str" /\ IsSafeExpr(expr) THEN <<expr>>
    ELSE <<>>

\* the locals of computeAC for a document and its derived statistics
formulaCtx(a, d) ==
    Ctx(computeACArmorParts(a).acArmor, computeACArmorParts(a).shieldTotal,
        DexCapped(d.abilityMods["dex"], computeACArmorParts(a).dexCap),
        TotalBonus(a, extractACFromEffects(a).add), d)

customFormulaAC(a, d) ==
    CustomOfExpr(a, Substitute(a.acFormula.s, formulaCtx(a, d)),
                 TotalBonus(a, extractACFromEffects(a).add))

FunctionCalls(a, d) ==
    FunctionCallsOf(a, extractACFromEffects(a).override,
                    Substitute(a.acFormula.s, formulaCtx(a, d)))

---------------------------------------------------------------------------
(* Documents                                                               *)
(*                                                                         *)
(* An actor record holds the fields of the exported document the engine    *)
(* reads: acValue/acFlat/acBonus/acCalc/acFormula are                      *)
(* system.attributes.ac.*, bonusesAc* are system.bonuses.ac.*, abilities   *)
(* maps an ability to system.abilities.<ab>.value, detailsLevel is         *)
(* system.details.level. An item holds type, system.equipped,              *)
(* system.attunement, system.armor.value/dex/magicalBonus/magicBonus,      *)
(* system.magicalBonus/magicBonus, system.type.value (subtype),            *)
(* system.levels and its effects. An effect holds disabled, transfer,      *)
(* flags.dae.transfer and its changes; a change holds key (its dotted      *)
(* segments), mode and value. itemsIs and effectsIs tell what the items    *)
(* and effects fields hold: "array" (the list in items, in effects),       *)
(* "missing", "null", or a truthy value that is not a list: "object",      *)
(* "string" (not empty), "number" (not zero). skills lists the entries of  *)
(* system.skills in property order: key, ability, value (the rank),        *)
(* bonuses.check and bonuses.passive; bonusesAbilitiesSkill,               *)
(* bonusesSkillsCheck and bonusesSkillsPassive are                         *)
(* system.bonuses.abilities.skill, .skills.check and .skills.passive.      *)

SeqsUpTo(S, n) == UNION {[1..k -> S] : k \in 0..n}

BaseActor ==
    [acValue |-> Undefined, acFlat |-> Undefined, acBonus |-> Undefined,
     acCalc |-> "default", acFormula |-> Undefined,
     bonusesAcValue |-> Undefined, bonusesAcBonus |-> Undefined,
     bonusesAcAll |-> Undefined,
     abilities |-> [ab \in AbilityNames |-> NumI(10)],
     detailsLevel |-> Undefined,
     skills |-> <<>>, bonusesAbilitiesSkill |-> Undefined,
     bonusesSkillsCheck |-> Undefined, bonusesSkillsPassive |-> Undefined,
     items |-> <<>>, effects |-> <<>>,
     itemsIs |-> "array", effectsIs |-> "array"]

BaseItem ==
    [type |-> "equipment", equipped |-> Bool(TRUE), attunement |-> Undefined,
     armorValue |-> Undefined, armorDex |-> Undefined,
     armorMagicalBonus |-> Undefined, armorMagicBonus |-> Undefined,
     sysMagicalBonus |-> Undefined, sysMagicBonus |-> Undefined,
     subtype |-> "", levels |-> Undefined, effects |-> <<>>]

Change(key, mode, value) == [key |-> key, mode |-> mode, value |-> value]

Effect(disabled, transfer, changes) ==
    [disabled |-> disabled, transfer |-> transfer, daeTransfer |-> FALSE,
     changes |-> changes]

KeyACValue == <<"system", "attributes", "ac", "value">>
KeyACFlat == <<"system", "attributes", "ac", "flat">>
KeyACBonus == <<"system", "attributes", "ac", "bonus">>
KeyLegacyBonus == <<"data", "attributes", "ac", "bonus">>
KeyUpperValue == <<"System", "Attributes", "AC", "Value">>
KeyOther == <<"system", "attributes", "hp", "max">>

Armour(subtype, base, cap, magic, equipped) ==
    [BaseItem EXCEPT !.subtype = subtype, !.armorValue = base, !.armorDex = cap,
                     !.armorMagicalBonus = magic, !.equipped = Bool(equipped)]

RingOfProtection ==
    [BaseItem EXCEPT !.type = "equipment", !.subtype = "trinket",
        !.effects = <<Effect(FALSE, TRUE, <<Change(KeyACBonus, NumI(AE_MODE_ADD), Str(<<"+", "1">>))>>)>>]

ItemPool ==
    {Armour("light", NumI(11), Null, Undefined, TRUE),
     Armour("heavy", NumI(18), NumI(0), Undefined, TRUE),
     Armour("medium", NumI(14), NumI(2), NumI(1), TRUE),
     Armour("medium", NumI(15), Str(<<"1">>), Undefined, TRUE),
     Armour("heavy", NumI(18), NumI(0), Undefined, FALSE),
     Armour("light", Str(<<"1", "6">>), Undefined, Undefined, TRUE),
     Armour("shield", NumI(2), Undefined, Undefined, TRUE),
     [Armour("shield", NumI(2), Undefined, Undefined, TRUE) EXCEPT !.sysMagicBonus = Str(<<"1">>)],
     RingOfProtection,
     [BaseItem EXCEPT !.type = "class", !.levels = NumI(5)]}

OverrideEffect == Effect(FALSE, FALSE, <<Change(KeyACValue, NumI(AE_MODE_OVERRIDE), NumI(20))>>)

FormulaArmorDex == <<"@attributes.ac.armor", " ", "+", " ", "@attributes.ac.dex">>

\* armour, shields, Dexterity, bonus fields and exported values
ArmourDocs ==
    {[BaseActor EXCEPT !.items = its, !.abilities["dex"] = dex, !.acBonus = bon,
                       !.bonusesAcAll = IF bon = Undefined THEN Undefined ELSE NumI(2),
                       !.acValue = ex[1], !.acFlat = ex[2],
                       !.effects = tier[1], !.acCalc = tier[2], !.acFormula = tier[3]] :
        its \in SeqsUpTo(ItemPool, MaxItems),
        dex \in {NumI(8), NumI(14), NumI(16)},
        bon \in {Undefined, Str(<<"+", "1">>)},
        ex \in {<<Undefined, Undefined>>, <<NumI(17), Undefined>>,
                <<Str(<<"1", "7">>), NumI(13)>>},
        tier \in {<<(<<>>), "default", Undefined>>,
                  <<(<<>>), "custom", Str(FormulaArmorDex)>>,
                  <<(<<OverrideEffect>>), "custom", Str(FormulaArmorDex)>>}}

ChangePool ==
    {Change(KeyACBonus, NumI(AE_MODE_ADD), NumI(1)),
     Change(KeyACBonus, NumI(AE_MODE_OVERRIDE), NumI(5)),
     Change(KeyACValue, NumI(AE_MODE_ADD), Str(<<"2">>)),
     Change(KeyACValue, NumI(AE_MODE_OVERRIDE), NumI(20)),
     Change(KeyACFlat, Str(<<"5">>), Str(<<"1", "6">>)),
     Change(KeyLegacyBonus, NumI(AE_MODE_ADD), Str(<<"+", "2">>)),
     Change(KeyUpperValue, NumI(AE_MODE_OVERRIDE), NumI(15)),
     Change(KeyACBonus, NumI(4), NumI(3)),
     Change(KeyOther, NumI(AE_MODE_ADD), NumI(4))}

NonEmptySeqsUpTo(S, n) == SeqsUpTo(S, n) \ {<<>>}

\* one effect on the character, with up to MaxChanges changes
ScanDocs ==
    {[BaseActor EXCEPT !.effects = <<Effect(dis, FALSE, chs)>>, !.acBonus = NumI(1),
                       !.acCalc = calc, !.acFormula = Str(FormulaArmorDex)] :
        chs \in NonEmptySeqsUpTo(ChangePool, MaxChanges),
        dis \in BOOLEAN,
        calc \in {"default", "custom"}}

\* two effects on the character, each enabled or disabled
PairDocs ==
    {[BaseActor EXCEPT !.effects = <<Effect(d1, FALSE, <<c1>>), Effect(d2, FALSE, <<c2>>)>>,
                       !.abilities["dex"] = NumI(14)] :
        c1 \in ChangePool, c2 \in ChangePool, d1 \in BOOLEAN, d2 \in BOOLEAN}

\* an effect carried by an item, after an optional effect on the character
ItemEffectDocs ==
    {[BaseActor EXCEPT
        !.effects = own,
        !.items = <<[BaseItem EXCEPT !.subtype = "trinket", !.equipped = eq,
                        !.attunement = att,
                        !.effects = <<[disabled |-> dis, transfer |-> tr,
                                       daeTransfer |-> dae, changes |-> <<ch>>]>>]>>] :
        own \in {<<>>, <<OverrideEffect>>},
        eq \in {Bool(TRUE), Bool(FALSE)},
        att \in {Undefined, NumI(1), NumI(2), Str(<<"2">>)},
        dis \in BOOLEAN, tr \in BOOLEAN, dae \in BOOLEAN,
        ch \in {c \in ChangePool : c.key \in {KeyACBonus, KeyACValue}}}

Docs == ArmourDocs \cup ScanDocs \cup PairDocs \cup ItemEffectDocs

FormulaAlphabet ==
    {"@attributes.ac.dex", "@abilities.dex.mod", "@attributes.ac.bonus",
     "0", "1", "8", "+", "-", "*", "/", "(", ")", " ", ".", "x"}

ExampleFormulas ==
    {FormulaArmorDex,
     <<"@attributes.ac.armor">>,
     <<"@attributes.ac.armor", "-", "@abilities.dex.mod">>,
     <<"@attributes.ac.armor", "/", "8", "+", "@attributes.ac.shield">>,
     <<"1", "0", "+", "@abilities.dex.mod", "+", "@attributes.ac.bonus">>,
     <<"(", "1", "+", "8", ")", "*", "@attributes.prof">>,
     <<"1", "/", "*", "8", "*", "/", "+", "8">>,
     <<"@attributes.ac.base", "+", "@abilities.wis.mod", "+", "@abilities.dex.mod">>,
     <<"1", "0", "+", "@attributes.ac.foo">>}

\* plate, a +1 bonus field, and every short formula over FormulaAlphabet
\* (whose values keep every power within 32-bit integers)
FormulaDocs ==
    {[BaseActor EXCEPT !.items = <<Armour("heavy", NumI(18), NumI(0), Undefined, TRUE)>>,
                       !.abilities["dex"] = dex, !.abilities["wis"] = NumI(7),
                       !.acBonus = Str(<<"+", "1">>), !.detailsLevel = NumI(5),
                       !.acCalc = "custom", !.acFormula = Str(f)] :
        f \in SeqsUpTo(FormulaAlphabet, MaxFormulaLen) \cup ExampleFormulas,
        dex \in {NumI(8), NumI(18)}}

ScalarInputs ==
    {NumI(i) : i \in (0 - MaxNegScore)..MaxScore}
    \cup {Num(Fin(21, 2)), Num(Fin(-1, 2)), Num(NaN), Num(PInf), Num(NInf),
          Undefined, Null, Bool(TRUE), Bool(FALSE),
          Str(<<>>), Str(<<" ">>), Str(<<"a", "b", "c">>), Str(<<"1", "5">>),
          Str(<<"-", "3">>), Str(<<"7", ".", "5">>)}

\* the texts of a bonus field: whatever the export holds, dice included
BonusAlphabet == {"1", "4", "d", "D", "+", "-", " "}

ExampleBonuses ==
    {<<"-", "1", " ", "+", "3">>, <<"1", "d", "4", " ", "+", "1">>,
     <<" ", "+", "1", "4", " ">>, <<"1", "0", "d", "1", "0">>, <<"+", "2">>}

BonusInputs ==
    {Str(cs) : cs \in SeqsUpTo(BonusAlphabet, MaxBonusLen) \cup ExampleBonuses}
    \cup {Undefined, Null, Bool(TRUE), NumI(2), NumI(-3), NumI(0), Num(NegZero),
          Num(Fin(5, 2)), Num(NaN), Num(PInf), Num(NInf)}

\* the documents of the vault: armour lists in and out of order, with and
\* without a custom formula
VaultDocs ==
    {[BaseActor EXCEPT !.items = its, !.abilities["dex"] = NumI(14),
                       !.acCalc = calc, !.acFormula = Str(FormulaArmorDex)] :
        its \in [1..2 -> {Armour("light", NumI(11), Null, Undefined, TRUE),
                          Armour("heavy", NumI(18), NumI(0), Undefined, TRUE),
                          Armour("shield", NumI(2), Undefined, Undefined, TRUE)}],
        calc \in {"default", "custom"}}

ClassItem(levels) == [BaseItem EXCEPT !.type = "class", !.levels = levels]

ClassPool ==
    {ClassItem(NumI(5)), ClassItem(NumI(-1)), ClassItem(Str(<<"2">>)),
     ClassItem(Num(Fin(5, 2))), ClassItem(Undefined), ClassItem(Str(<<"a", "b", "c">>))}

\* what a parsed JSON file may hold where a list is expected
ListShapes == {"array", "missing", "null", "object", "string", "number"}

\* documents with missing, null and mistyped fields
LooseDocs ==
    {[BaseActor EXCEPT !.itemsIs = shape, !.items = IF shape = "array" THEN its ELSE <<>>,
                       !.effectsIs = eshape, !.detailsLevel = lvl,
                       !.abilities["dex"] = dex] :
        shape \in ListShapes,
        its \in SeqsUpTo(ClassPool, MaxItems),
        eshape \in {"array", "null", "object"},
        lvl \in {Undefined, Null, Str(<<"a", "b", "c">>), NumI(3), NumI(-3),
                 Num(Fin(5, 2)), Bool(TRUE)},
        dex \in {Undefined, Null, Str(<<"x">>), NumI(14)}}

\* what a payload may hold in an envelope field: nothing, null, a falsy
\* scalar, or a document
EnvelopeValues(doc) == {Undefined, Null, Bool(FALSE), NumI(0), Str(<<>>), doc}

\* a payload: its actor, data.actor and document lookups, and itself
Payloads ==
    {[actor |-> a, dataActor |-> da, document |-> dc, self |-> Obj(0)] :
        a \in EnvelopeValues(Obj(1)), da \in EnvelopeValues(Obj(2)),
        dc \in EnvelopeValues(Obj(3))}
    \cup {[actor |-> Undefined, dataActor |-> Undefined, document |-> Undefined,
           self |-> Null]}

\* what a character carries: up to MaxItems items of the pool, and a loadout
\* of an armour, an unequipped better armour and two shields
FullLoadout ==
    <<Armour("medium", NumI(14), NumI(2), NumI(1), TRUE),
      Armour("heavy", NumI(18), NumI(0), Undefined, FALSE),
      Armour("shield", NumI(2), Undefined, Undefined, TRUE),
      [Armour("shield", NumI(2), Undefined, Undefined, TRUE) EXCEPT !.sysMagicBonus = Str(<<"1">>)]>>

LoadoutDocs ==
    {[BaseActor EXCEPT !.items = its] :
        its \in SeqsUpTo(ItemPool, MaxItems) \cup {FullLoadout}}

---------------------------------------------------------------------------
(* src/app.js: the earlier computeAC, without effects and magical bonuses  *)

\* Number(item.system.armor.value ?? 0)
ArmourBaseOf(item) == ToNumber(Coalesce(item.armorValue, NumI(0)))

\* armours.sort(...): by base value, best first
RankByBase(armours) ==
    SortByTotalDesc([j \in 1..Len(armours) |->
                        [item |-> armours[j], total |-> ArmourBaseOf(armours[j])]])

ArmorAndShieldOf(sorted, shields) ==
    [hasBest |-> sorted # <<>>,
     dexCap |-> IF sorted # <<>> THEN sorted[1].armorDex ELSE Null,
     armourBase |-> IF sorted # <<>> THEN ToNumber(sorted[1].armorValue) ELSE IntN(10),
     shieldBonus |-> SumFromZero([j \in 1..Len(shields) |-> ArmourBaseOf(shields[j])])]

ArmorAndShieldOfEquipped(equipped) ==
    ArmorAndShieldOf(ItemsOfRanked(RankByBase(SelectSeq(equipped, IsArmourItem))),
                     SelectSeq(equipped, IsShieldItem))

computeACArmorAndShield(a) == ArmorAndShieldOfEquipped(SelectSeq(a.items, IsEquippedItem))

\* the eight tokens of the earlier ctx
AppCtxTokens ==
    {"@attributes.ac.armor", "@attributes.ac.dex",
     "@abilities.str.mod", "@abilities.dex.mod", "@abilities.con.mod",
     "@abilities.int.mod", "@abilities.wis.mod", "@abilities.cha.mod"}

AppCtx(armor, acDex, d) ==
    [tok \in AppCtxTokens |->
        IF tok = "@attributes.ac.armor" THEN armor
        ELSE IF tok = "@attributes.ac.dex" THEN acDex
        ELSE IF tok = "@abilities.str.mod" THEN d.abilityMods["str"]
        ELSE IF tok = "@abilities.dex.mod" THEN d.abilityMods["dex"]
        ELSE IF tok = "@abilities.con.mod" THEN d.abilityMods["con"]
        ELSE IF tok = "@abilities.int.mod" THEN d.abilityMods["int"]
        ELSE IF tok = "@abilities.wis.mod" THEN d.abilityMods["wis"]
        ELSE d.abilityMods["cha"]]

\* the custom path: the value of the formula, with nothing added
AppCustomResult(a, safe, r) ==
    IF a.acCalc = "custom" /\ a.acFormula.t = "str" /\ safe /\ r.ok /\ NumIsFinite(r.val)
    THEN [ok |-> TRUE, val |-> r.val]
    ELSE [ok |-> FALSE, val |-> NaN]

AppCustomOfExpr(a, expr) == AppCustomResult(a, IsSafeExpr(expr), EvalFunction(expr))

AppComputeACWith(a, d, parts, acDex) ==
    IF IsFiniteNumber(a.acValue) THEN ToNumber(a.acValue)
    ELSE IF IsFiniteNumber(a.acFlat) THEN ToNumber(a.acFlat)
    ELSE CustomOrHeuristic(
            AppCustomOfExpr(a, Substitute(a.acFormula.s,
                                          AppCtx(NumAdd(parts.armourBase, parts.shieldBonus),
                                                 acDex, d))),
            NumAdd(NumAdd(NumAdd(parts.armourBase, acDex), parts.shieldBonus),
                   parseFlatBonus(a.acBonus)))

AppComputeACOfParts(a, d, parts) ==
    AppComputeACWith(a, d, parts, DexCapped(d.abilityMods["dex"], parts.dexCap))

\* computeAC of src/app.js
AppComputeAC(a, d) == AppComputeACOfParts(a, d, computeACArmorAndShield(a))

\* armours with every kind of Dex cap, and a formula that is the Dex
\* contribution alone
CapPool ==
    {Armour("light", NumI(11), Undefined, Undefined, TRUE),
     Armour("light", NumI(12), Null, Undefined, TRUE),
     Armour("medium", NumI(14), NumI(2), Undefined, TRUE),
     Armour("medium", NumI(15), Str(<<>>), Undefined, TRUE),
     Armour("medium", NumI(13), Str(<<"1">>), Undefined, TRUE),
     Armour("heavy", NumI(18), NumI(0), Undefined, TRUE),
     Armour("heavy", NumI(18), NumI(0), Undefined, FALSE),
     Armour("shield", NumI(2), NumI(0), Undefined, TRUE)}

DexDocs ==
    {[BaseActor EXCEPT !.items = its, !.abilities["dex"] = dex,
                       !.acCalc = "custom", !.acFormula = Str(<<"@attributes.ac.dex">>)] :
        its \in SeqsUpTo(CapPool, MaxItems),
        dex \in {NumI(6), NumI(10), NumI(14), NumI(18)}}

\* items whose order in the list can matter: armours that tie on base + magic
\* with different Dex caps, and worn items whose effects change the bonus
Breastplate == Armour("medium", NumI(14), NumI(2), Undefined, TRUE)

MagicStudded == Armour("light", NumI(13), Null, NumI(1), TRUE)

BroochOfShielding ==
    [RingOfProtection EXCEPT
        !.effects = <<Effect(FALSE, TRUE, <<Change(KeyACBonus, NumI(AE_MODE_OVERRIDE), Str(<<"5">>))>>)>>]

OrderPool ==
    {Breastplate, MagicStudded, RingOfProtection, BroochOfShielding,
     Armour("light", NumI(12), Null, Undefined, TRUE),
     Armour("shield", NumI(2), Undefined, Undefined, TRUE)}

OrderDocs ==
    {[BaseActor EXCEPT !.items = its, !.abilities["dex"] = NumI(18)] :
        its \in SeqsUpTo(OrderPool, MaxItems)}

Reverse(xs) == [i \in 1..Len(xs) |-> xs[Len(xs) + 1 - i]]

\* one entry of system.skills
Skill(key, ability, value, check) ==
    [key |-> key, ability |-> ability, value |-> value, check |-> check,
     passive |-> Undefined]

SkillPool ==
    {Skill("acr", ability, value, check) :
        ability \in {Undefined, Str(<<>>), Str(<<"dex">>), Str(<<"luck">>),
                     Str(<<"constructor">>)},
        value \in {Undefined, NumI(0), NumI(-1), Num(Fin(1, 2)), NumI(1), NumI(2),
                   Num(Fin(3, 2)), Str(<<"1">>)},
        check \in {Undefined, Str(<<"+", "2">>), Str(<<"1", "d", "4">>)}}

Perception == [Skill("prc", Str(<<"wis">>), NumI(1), Undefined) EXCEPT !.passive = NumI(5)]

SkillDocs ==
    {[BaseActor EXCEPT !.skills = sks, !.detailsLevel = lvl,
                       !.abilities["dex"] = dex,
                       !.bonusesAbilitiesSkill = g, !.bonusesSkillsCheck = h] :
        sks \in {<<sk>> : sk \in SkillPool} \cup {<<sk, Perception>> : sk \in SkillPool},
        lvl \in {Undefined, NumI(1), NumI(5), NumI(9)},
        dex \in {NumI(8), NumI(14)},
        g \in {Undefined, Str(<<"+", "1">>)},
        h \in {Undefined, NumI(1)}}

NoDerived ==
    [level |-> IntN(0), prof |-> IntN(0), abilityMods |-> [ab \in AbilityNames |-> IntN(0)],
     skillTotals |-> <<>>, passivePrc |-> NumI(0)]

NotShown == [done |-> FALSE, derived |-> NoDerived, ac |-> NaN]

---------------------------------------------------------------------------
(* The render of a document, and the scalar helpers on their own           *)

InitIdle ==
    /\ arg = Undefined
    /\ fn = "none"
    /\ ret = NaN

InitLoaded ==
    /\ derived = NoDerived
    /\ acValue = NaN
    /\ pc = "loaded"
    /\ evaluated = <<>>

InitNoPage ==
    /\ selectedId = Null
    /\ roster = <<>>
    /\ sheet = <<>>
    /\ searchText = <<>>
    /\ stored = [has |-> FALSE, list |-> <<>>]
    /\ server = [ok |-> FALSE, entries |-> <<>>]
    /\ tasks = <<>>

InitNoVault ==
    /\ allPayloads = <<>>
    /\ shown = <<>>
    /\ InitNoPage

Init == InitIdle /\ InitLoaded /\ InitNoVault /\ actor \in Docs

InitFormula == InitIdle /\ InitLoaded /\ InitNoVault /\ actor \in FormulaDocs

InitMath == InitLoaded /\ InitNoVault /\ actor = BaseActor /\ arg \in ScalarInputs /\ fn = "none" /\ ret = NaN

InitBonus == InitLoaded /\ InitNoVault /\ actor = BaseActor /\ arg \in BonusInputs /\ fn = "none" /\ ret = NaN

InitVault ==
    /\ InitIdle /\ InitLoaded /\ actor = BaseActor
    /\ allPayloads \in [1..MaxPayloads -> VaultDocs]
    /\ shown = [i \in 1..MaxPayloads |-> NotShown]
    /\ InitNoPage

InitLoose == InitIdle /\ InitLoaded /\ InitNoVault /\ actor \in LooseDocs

InitPayload == InitLoaded /\ InitNoVault /\ actor = BaseActor /\ arg \in Payloads /\ fn = "none" /\ ret = NaN

InitArmour == InitIdle /\ InitLoaded /\ InitNoVault /\ actor \in LoadoutDocs

InitDex == InitIdle /\ InitLoaded /\ InitNoVault /\ actor \in DexDocs

\* a document and the same document with its item list reversed
InitOrder ==
    /\ InitIdle /\ InitLoaded /\ actor = BaseActor
    /\ \E d \in OrderDocs : allPayloads = <<d, [d EXCEPT !.items = Reverse(@)]>>
    /\ shown = [i \in 1..2 |-> NotShown]
    /\ InitNoPage

InitTwin == InitIdle /\ InitLoaded /\ InitNoVault /\ actor \in Docs \cup VaultDocs

InitSkills == InitIdle /\ InitLoaded /\ InitNoVault /\ actor \in SkillDocs

\* renderDnd5e: derive the statistics, then resolve the armour class
Render ==
    /\ pc = "loaded"
    /\ IF totalLevelRaises(actor)
       THEN /\ pc' = "raised"
            /\ UNCHANGED <<derived, acValue, evaluated>>
       ELSE /\ \E d \in {dnd5eDerived(actor)} :
                  /\ derived' = d
                  /\ acValue' = computeAC(actor, d)
                  /\ evaluated' = FunctionCalls(actor, d)
            /\ pc' = "rendered"
    /\ UNCHANGED <<actor, scalarVars, vaultVars>>

\* the earlier computeAC on the document and the derived values of the render
CallAppComputeAC ==
    /\ pc = "rendered"
    /\ fn = "none"
    /\ fn' = "computeAC"
    /\ ret' = AppComputeAC(actor, derived)
    /\ UNCHANGED <<arg, renderVars, vaultVars>>

CallAbilityMod ==
    /\ fn = "none"
    /\ fn' = "abilityMod"
    /\ ret' = abilityMod(arg)
    /\ UNCHANGED <<arg, renderVars, vaultVars>>

CallProficiencyBonus ==
    /\ fn = "none"
    /\ fn' = "proficiencyBonus"
    /\ ret' = proficiencyBonus(arg)
    /\ UNCHANGED <<arg, renderVars, vaultVars>>

CallParseFlatBonus ==
    /\ fn = "none"
    /\ fn' = "parseFlatBonus"
    /\ ret' = parseFlatBonus(arg)
    /\ UNCHANGED <<arg, renderVars, vaultVars>>

\* renderDnd5e on the i-th loaded payload
RenderPayload(i) ==
    /\ ~totalLevelRaises(allPayloads[i])
    /\ \E d \in {dnd5eDerived(allPayloads[i])} :
          shown' = [shown EXCEPT ![i] = [done |-> TRUE, derived |-> d,
                                         ac |-> computeAC(allPayloads[i], d)]]
    /\ allPayloads' = [allPayloads EXCEPT ![i].items = ItemsAfterArmorParts(@)]
    /\ UNCHANGED <<scalarVars, renderVars, pageVars>>

CallActorFromPayload ==
    /\ fn = "none"
    /\ fn' = "actorFromPayload"
    /\ ret' = actorFromPayload(arg)
    /\ UNCHANGED <<arg, renderVars, vaultVars>>

CallComputeACArmorParts ==
    /\ fn = "none"
    /\ fn' = "computeACArmorParts"
    /\ ret' = computeACArmorParts(actor)
    /\ UNCHANGED <<arg, renderVars, vaultVars>>

Next == Render

NextMath == CallAbilityMod \/ CallProficiencyBonus

NextBonus == CallParseFlatBonus

NextVault == \E i \in 1..Len(allPayloads) : RenderPayload(i)

NextPayload == CallActorFromPayload

NextArmour == CallComputeACArmorParts

Spec == Init /\ [][Next]_vars

SpecFormula == InitFormula /\ [][Next]_vars

SpecMath == InitMath /\ [][NextMath]_vars

SpecBonus == InitBonus /\ [][NextBonus]_vars

SpecVault == InitVault /\ [][NextVault]_vars

SpecLoose == InitLoose /\ [][Next]_vars

SpecPayload == InitPayload /\ [][NextPayload]_vars

SpecArmour == InitArmour /\ [][NextArmour]_vars

SpecDex == InitDex /\ [][Next]_vars

SpecSkills == InitSkills /\ [][Next]_vars

SpecOrder == InitOrder /\ [][NextVault]_vars

NextTwin == Render \/ CallAppComputeAC

SpecTwin == InitTwin /\ [][NextTwin]_vars

---------------------------------------------------------------------------
(* The page: loading, roster, selection, search and import                 *)
(*                                                                         *)
(* A payload holds what the page reads of it: actorId (actor._id), id      *)
(* (payload.id) and name (actor.name); an id is a string of one symbol.    *)
(* crypto.randomUUID() returns a string equal to no other id: the uuid of  *)
(* the i-th entry built by initialise is FreshId("entry", i), that of the  *)
(* i-th node of a paint is FreshId("node", i), and a selected node uuid    *)
(* becomes GoneId when the roster is painted again (the node that carried  *)
(* it is gone, the new nodes carry new uuids).                             *)

FreshId(kind, i) == Str(<<"uuid", kind>> \o NatToChars(i))

GoneId == Str(<<"uuid", "gone">>)

IsNodeUuid(v) == v.t = "str" /\ Len(v.s) > 2 /\ v.s[1] = "uuid" /\ v.s[2] = "node"

SelectedAfterPaint(sel) == IF IsNodeUuid(sel) THEN GoneId ELSE sel

\* actor?._id || payload?.id || crypto.randomUUID()
IdOr(p, fresh) ==
    IF Truthy(p.actorId) THEN p.actorId ELSE IF Truthy(p.id) THEN p.id ELSE fresh

\* toLowerCase, on the capitals the names and search texts use
LowerChar(c) ==
    CASE c = "A" -> "a" [] c = "B" -> "b" [] c = "O" -> "o" [] c = "U" -> "u"
      [] OTHER -> c

Lower(cs) == [i \in 1..Len(cs) |-> LowerChar(cs[i])]

\* safeText(s): (s ?? "").toString()
safeText(v) == IF IsNullish(v) THEN <<>> ELSE ToStringChars(v)

norm(v) == Trim(Lower(safeText(v)))

\* corpus.includes(q)
Includes(hay, needle) ==
    \E i \in 0..(Len(hay) - Len(needle)) : SubSeq(hay, i + 1, i + Len(needle)) = needle

\* bits.filter(Boolean).join(" "), the name being the only bit of a payload
extractSearchCorpus(p) == norm(IF Truthy(p.name) THEN p.name ELSE Str(<<>>))

Unnamed == Str(<<"U", "n", "n", "a", "m", "e", "d">>)

\* one entry of allPayloads, for the i-th merged payload
EntryOfPayload(p, i) ==
    [id |-> IdOr(p, FreshId("entry", i)),
     name |-> IF Truthy(p.name) THEN p.name ELSE Unnamed,
     payload |-> p,
     corpus |-> extractSearchCorpus(p)]

\* localeCompare: letters in alphabetical order, capitals with their small
\* letters (no two names of the model differ in case alone)
Collation == <<" ", "a", "b", "d", "e", "m", "n", "o", "u">>

Rank(c) == CHOOSE i \in 1..Len(Collation) : Collation[i] = LowerChar(c)

RECURSIVE LocaleLess(_, _)
LocaleLess(x, y) ==
    IF y = <<>> THEN FALSE
    ELSE IF x = <<>> THEN TRUE
    ELSE IF Rank(Head(x)) < Rank(Head(y)) THEN TRUE
    ELSE IF Rank(Head(x)) > Rank(Head(y)) THEN FALSE
    ELSE LocaleLess(Tail(x), Tail(y))

RECURSIVE InsertByName(_, _)
InsertByName(sorted, e) ==
    IF sorted = <<>> THEN <<e>>
    ELSE IF LocaleLess(safeText(e.name), safeText(Head(sorted).name)) THEN <<e>> \o sorted
    ELSE <<Head(sorted)>> \o InsertByName(Tail(sorted), e)

RECURSIVE SortByName(_)
SortByName(es) ==
    IF es = <<>> THEN <<>>
    ELSE InsertByName(SortByName(SubSeq(es, 1, Len(es) - 1)), es[Len(es)])

\* merged.map(...).sort(...)
BuildAllPayloads(merged) ==
    SortByName([i \in 1..Len(merged) |-> EntryOfPayload(merged[i], i)])

PayloadsOf(entries) == [i \in 1..Len(entries) |-> entries[i].payload]

\* a roster node: its dataset.id and the payload it was built from
rosterItem(p, i) == [id |-> IdOr(p, FreshId("node", i)), payload |-> p]

\* the nodes of the roster after paintRoster(payloads)
paintRoster(payloads) == [i \in 1..Len(payloads) |-> rosterItem(payloads[i], i)]

\* actorFromPayload(x.payload)?._id || x.id
EntryKey(x) == IF Truthy(x.payload.actorId) THEN x.payload.actorId ELSE x.id

HasKey(entries, id) == \E i \in 1..Len(entries) : EntryKey(entries[i]) = id

\* allPayloads.find(...)
FindByKey(entries, id) ==
    entries[CHOOSE i \in 1..Len(entries) :
                /\ EntryKey(entries[i]) = id
                /\ \A j \in 1..(i - 1) : EntryKey(entries[j]) # id]

\* the sheet after selectActor(id): <<>> is the empty sheet, <<p>> the
\* rendering of the payload p
SheetAfterSelect(entries, id, old) ==
    IF HasKey(entries, id) THEN <<FindByKey(entries, id).payload>> ELSE old

\* !q ? allPayloads : allPayloads.filter((x) => x.corpus.includes(q))
Filtered(entries, q) ==
    IF q = <<>> THEN entries
    ELSE LET Match(x) == Includes(x.corpus, q) IN SelectSeq(entries, Match)

\* the sheet after filterRosterBySearch: cleared by paintRoster when nothing
\* is left, and when the selected id is not among the filtered entries
SheetAfterFilter(filtered, sel, old) ==
    IF filtered = <<>> THEN <<>>
    ELSE IF Truthy(sel) /\ ~HasKey(filtered, sel) THEN <<>>
    ELSE old

\* localStorage[LS_KEY]: has tells whether the key is set, list is the
\* array its JSON text holds (a payload is a JSON value, which
\* JSON.stringify and JSON.parse give back as it was)
loadLocalPayloads(store) == IF store.has THEN store.list ELSE <<>>

saveLocalPayloads(payloads) == [has |-> TRUE, list |-> payloads]

mergedLocal_newOnly(existingLocal, newPayloads) == newPayloads

\* [...existingLocal, ...newPayloads]
mergedLocal(existingLocal, newPayloads) == existingLocal \o newPayloads

\* what the server answers: the manifest (ok tells whether it could be
\* fetched and parsed) and, per entry, a payload, a non-OK response or a
\* body that is not JSON
Served(p) == [kind |-> "ok", payload |-> p]

NotOk == [kind |-> "notok", payload |-> <<>>]

BadBody == [kind |-> "badjson", payload |-> <<>>]

\* a selected file: text that parses to a payload, or text that does not
GoodFile(p) == [parses |-> TRUE, payload |-> p]

BadFile == [parses |-> FALSE, payload |-> <<>>]

\* an asynchronous run waiting at an await: of initialise (pc "manifest":
\* the manifest is being fetched; "entry": entry k is being fetched;
\* "merge": loadManifestPayloads has settled) or of the import handler
\* (pc "file": file k is being read). payloads is the run's payloads or
\* newPayloads list; began is the length of the stored list when an import
\* handler started, which no step reads.
InitialiseRun ==
    [kind |-> "initialise", pc |-> "manifest", k |-> 1, files |-> <<>>,
     payloads |-> <<>>, began |-> 0]

ImportRun(files, began) ==
    [kind |-> "import", pc |-> "file", k |-> 1, files |-> files,
     payloads |-> <<>>, began |-> began]

Without(runs, t) == SubSeq(runs, 1, t - 1) \o SubSeq(runs, t + 1, Len(runs))

Character(actorId, id, name) == [actorId |-> actorId, id |-> id, name |-> name]

Ann == Character(Str(<<"a1">>), Undefined, Str(<<"A", "n", "n">>))

\* a second export that carries the same actor _id as Ann
AnnAgain == Character(Str(<<"a1">>), Undefined, Str(<<"B", "o">>))

Bo == Character(Undefined, Str(<<"p2">>), Str(<<"B", "o">>))

Stranger == Character(Undefined, Undefined, Undefined)

ServerPool ==
    {[ok |-> FALSE, entries |-> <<>>],
     [ok |-> TRUE, entries |-> <<Served(Ann), Served(Stranger)>>],
     [ok |-> TRUE, entries |-> <<NotOk, Served(Ann)>>],
     [ok |-> TRUE, entries |-> <<Served(Ann), BadBody>>]}

Selections ==
    {<<GoodFile(Bo)>>, <<GoodFile(AnnAgain)>>, <<BadFile, GoodFile(AnnAgain)>>,
     <<GoodFile(Bo), BadFile>>}

SearchPool == {<<>>, <<"a", "n">>, <<" ", "B", "O", " ">>}

GoodCount(files) == Len(SelectSeq(files, LAMBDA f : f.parses))

RECURSIVE PendingCount(_)
PendingCount(runs) ==
    IF runs = <<>> THEN 0 ELSE GoodCount(Head(runs).files) + PendingCount(Tail(runs))

\* the page once the script has run: nothing loaded, the first initialise()
\* waiting for the manifest
InitPageWith(servers) ==
    /\ InitIdle /\ InitLoaded /\ actor = BaseActor
    /\ allPayloads = <<>>
    /\ shown = <<>>
    /\ selectedId = Null
    /\ roster = <<>>
    /\ sheet = <<>>
    /\ searchText = <<>>
    /\ stored = [has |-> FALSE, list |-> <<>>]
    /\ server \in servers
    /\ tasks = <<InitialiseRun>>

InitPage == InitPageWith(ServerPool)

InitImport == InitPageWith({[ok |-> TRUE, entries |-> <<Served(Ann)>>]})

\* a click on the n-th roster node: selectActor(node.dataset.id)
Click(n) ==
    /\ n \in 1..Len(roster)
    /\ selectedId' = roster[n].id
    /\ sheet' = SheetAfterSelect(allPayloads, roster[n].id, sheet)
    /\ UNCHANGED <<allPayloads, roster, searchText, stored, server, tasks, engineVars>>

\* an input event of the search box: filterRosterBySearch
SearchInput(text) ==
    /\ text # searchText
    /\ searchText' = text
    /\ \E filtered \in {Filtered(allPayloads, norm(Str(text)))} :
          /\ roster' = paintRoster(PayloadsOf(filtered))
          /\ sheet' = SheetAfterFilter(filtered, selectedId, sheet)
    /\ selectedId' = SelectedAfterPaint(selectedId)
    /\ UNCHANGED <<allPayloads, stored, server, tasks, engineVars>>

\* a click on refresh: initialise() runs up to its first await
Refresh ==
    /\ Len(tasks) < MaxTasks
    /\ tasks' = Append(tasks, InitialiseRun)
    /\ UNCHANGED <<allPayloads, selectedId, roster, sheet, searchText, stored, server,
                   engineVars>>

\* a change event of the file input with a selection that is not empty (an
\* empty one returns at once): the handler runs up to its first await
ImportChange(files) ==
    /\ Len(tasks) < MaxTasks
    /\ Len(loadLocalPayloads(stored)) + PendingCount(tasks) + GoodCount(files) <= MaxStored
    /\ tasks' = Append(tasks, ImportRun(files, Len(loadLocalPayloads(stored))))
    /\ UNCHANGED <<allPayloads, selectedId, roster, sheet, searchText, stored, server,
                   engineVars>>

\* the handler's newPayloads once file k is read and parsed
ReadInto(run) ==
    IF run.files[run.k].parses THEN Append(run.payloads, run.files[run.k].payload)
    ELSE run.payloads

\* f.text() of file k settles; after the last file the handler goes on, in
\* the same turn, to load, merge and save the stored list and calls
\* initialise(), which runs up to its first await
ReadFile(t) ==
    /\ t \in 1..Len(tasks)
    /\ tasks[t].kind = "import"
    /\ IF tasks[t].k < Len(tasks[t].files)
       THEN /\ tasks' = [tasks EXCEPT ![t].k = @ + 1, ![t].payloads = ReadInto(tasks[t])]
            /\ UNCHANGED stored
       ELSE /\ stored' = saveLocalPayloads(mergedLocal(loadLocalPayloads(stored),
                                                      ReadInto(tasks[t])))
            /\ tasks' = [tasks EXCEPT ![t] = InitialiseRun]
    /\ UNCHANGED <<allPayloads, selectedId, roster, sheet, searchText, server, engineVars>>

\* loadManifestPayloads: the manifest settles; a failed fetch throws, which
\* initialise catches with manifestPayloads = []
FetchManifest(t) ==
    /\ t \in 1..Len(tasks)
    /\ tasks[t].kind = "initialise"
    /\ tasks[t].pc = "manifest"
    /\ tasks' = [tasks EXCEPT ![t].pc = IF server.ok /\ server.entries # <<>>
                                        THEN "entry" ELSE "merge"]
    /\ UNCHANGED <<allPayloads, selectedId, roster, sheet, searchText, stored, server,
                   engineVars>>

\* the run after entry k has settled: a non-OK response is skipped, a body
\* that is no JSON throws out of loadManifestPayloads and initialise goes on
\* with manifestPayloads = []
AfterEntry(run, response, last) ==
    IF response.kind = "badjson"
    THEN [run EXCEPT !.pc = "merge", !.payloads = <<>>]
    ELSE [run EXCEPT !.pc = IF run.k = last THEN "merge" ELSE "entry",
                     !.k = @ + 1,
                     !.payloads = IF response.kind = "ok"
                                  THEN Append(@, response.payload) ELSE @]

\* loadManifestPayloads: the fetch of entry k and its r.json() settle
FetchEntry(t) ==
    /\ t \in 1..Len(tasks)
    /\ tasks[t].kind = "initialise"
    /\ tasks[t].pc = "entry"
    /\ tasks' = [tasks EXCEPT ![t] = AfterEntry(tasks[t], server.entries[tasks[t].k],
                                                 Len(server.entries))]
    /\ UNCHANGED <<allPayloads, selectedId, roster, sheet, searchText, stored, server,
                   engineVars>>

\* initialise after loadManifestPayloads has settled: merge with the stored
\* payloads, build and sort allPayloads, paint every payload
FinishInitialise(t) ==
    /\ t \in 1..Len(tasks)
    /\ tasks[t].kind = "initialise"
    /\ tasks[t].pc = "merge"
    /\ \E entries \in {BuildAllPayloads(tasks[t].payloads \o loadLocalPayloads(stored))} :
          /\ allPayloads' = entries
          /\ roster' = paintRoster(PayloadsOf(entries))
          /\ sheet' = IF entries = <<>> THEN <<>> ELSE sheet
    /\ selectedId' = SelectedAfterPaint(selectedId)
    /\ tasks' = Without(tasks, t)
    /\ UNCHANGED <<searchText, stored, server, engineVars>>

NextPage ==
    \/ \E n \in 1..Len(roster) : Click(n)
    \/ \E text \in SearchPool : SearchInput(text)
    \/ Refresh
    \/ \E files \in Selections : ImportChange(files)
    \/ \E t \in 1..Len(tasks) : ReadFile(t)
    \/ \E t \in 1..Len(tasks) : FetchManifest(t)
    \/ \E t \in 1..Len(tasks) : FetchEntry(t)
    \/ \E t \in 1..Len(tasks) : FinishInitialise(t)

SpecPage == InitPage /\ [][NextPage]_vars

NextImport ==
    \/ \E files \in Selections : ImportChange(files)
    \/ \E t \in 1..Len(tasks) : ReadFile(t)
    \/ \E t \in 1..Len(tasks) : FetchManifest(t)
    \/ \E t \in 1..Len(tasks) : FetchEntry(t)
    \/ \E t \in 1..Len(tasks) : FinishInitialise(t)

SpecImport == InitImport /\ [][NextImport]_vars

---------------------------------------------------------------------------
(* Properties: the scalar helpers                                          *)

IsIntegerNum(x) == x.k = "fin" /\ x.d = 1

\* C8: for every finite numeric score s, abilityMod(s) is the integer m with
\* m <= (s - 10) / 2 < m + 1, that is floor((s - 10) / 2), also below 10
C8_AbilityModIsFloor ==
    (fn = "abilityMod" /\ IsFiniteNumber(arg)) =>
        /\ IsIntegerNum(ret)
        /\ 2 * ret.n * arg.d <= arg.n - 10 * arg.d
        /\ arg.n - 10 * arg.d < (2 * ret.n + 2) * arg.d

C8_Witness == fn = "abilityMod" /\ arg = NumI(7) /\ ret = IntN(-2)

\* the inputs C9 lists: undefined, null, a boolean, the empty string,
\* non-numeric text, NaN and the infinities
IsListedNonNumber(v) ==
    \/ v.t \in {"undefined", "null", "bool"}
    \/ v.t = "str" /\ (v.s = <<>> \/ StringToNumber(v.s) = NaN)
    \/ v.t = "num" /\ ~NumIsFinite(NumOf(v))

\* C9: abilityMod returns 0 for every input that is not a finite number
C9_AbilityModZeroOnNonNumber ==
    (fn = "abilityMod" /\ IsListedNonNumber(arg)) => ret = IntN(0)

\* C10: proficiencyBonus(L) is 0 for L <= 0 and for non-finite L, and for an
\* integer L >= 1 it is the integer b with 4 * (b - 2) <= L - 1 < 4 * (b - 1)
C10_ProficiencyBonus ==
    fn = "proficiencyBonus" =>
        /\ (arg.t = "num" /\ ~NumIsFinite(NumOf(arg))) => ret = IntN(0)
        /\ arg.t = "undefined" => ret = IntN(0)
        /\ (IsFiniteNumber(arg) /\ arg.n <= 0) => ret = IntN(0)
        /\ (IsFiniteNumber(arg) /\ arg.d = 1 /\ arg.n >= 1) =>
              /\ IsIntegerNum(ret)
              /\ 4 * (ret.n - 2) <= arg.n - 1
              /\ arg.n - 1 < 4 * (ret.n - 1)
        /\ (IsFiniteNumber(arg) /\ arg.d = 1 /\ arg.n \in 1..4) => ret = IntN(2)
        /\ (IsFiniteNumber(arg) /\ arg.d = 1 /\ arg.n \in 5..8) => ret = IntN(3)

C10_Witness == fn = "proficiencyBonus" /\ arg = NumI(5) /\ ret = IntN(3)

ParsedBonus == fn = "parseFlatBonus"

\* dice notation as the specification words it: a digit, the letter d in
\* either case, a digit
HasDiceNotation(cs) ==
    \E i \in 1..(Len(cs) - 2) :
        cs[i] \in Digits /\ cs[i + 1] \in {"d", "D"} /\ cs[i + 2] \in Digits

IsBlank(cs) == \A i \in 1..Len(cs) : cs[i] \in WhiteSpace

\* C11: parseFlatBonus is 0 on a text with dice notation, on null and
\* undefined, on an empty or blank text and on a number that is not finite;
\* a finite number comes back unchanged
C11_FlatBonusRejections ==
    ParsedBonus =>
        /\ (arg.t = "str" /\ HasDiceNotation(arg.s)) => ret = IntN(0)
        /\ IsNullish(arg) => ret = IntN(0)
        /\ (arg.t = "str" /\ IsBlank(arg.s)) => ret = IntN(0)
        /\ (arg.t = "num" /\ ~NumIsFinite(NumOf(arg))) => ret = IntN(0)
        /\ IsFiniteNumber(arg) => ret = NumOf(arg)
        /\ arg = Str(<<"1", "d", "4">>) => ret = IntN(0)
        /\ arg = Str(<<"+", "2">>) => ret = IntN(2)
        /\ arg = Str(<<"-", "1", " ", "+", "3">>) => ret = IntN(2)

C11_Witness ==
    /\ ParsedBonus
    /\ arg = Str(<<"1", "D", "4">>)
    /\ ret = IntN(0)

\* the signed value of the run of digits that starts at position i: the run
\* is maximal, and a sign counts when it stands directly before it
RunStarts(cs) ==
    {i \in 1..Len(cs) : cs[i] \in Digits /\ (i = 1 \/ cs[i - 1] \notin Digits)}

RunValue(cs, i) ==
    IF i > 1 /\ cs[i - 1] = "-"
    THEN 0 - DecVal(SubSeq(cs, i, i + DigitRun(cs, i) - 1))
    ELSE DecVal(SubSeq(cs, i, i + DigitRun(cs, i) - 1))

RECURSIVE SumOfRuns(_, _)
SumOfRuns(cs, starts) ==
    IF starts = {} THEN 0
    ELSE LET i == CHOOSE j \in starts : TRUE
         IN  RunValue(cs, i) + SumOfRuns(cs, starts \ {i})

SignedIntegerSum(cs) == IntN(SumOfRuns(cs, RunStarts(cs)))

\* C12 as stated: a text without digit-d-digit is summed, so "d4" gives 4
C12_SummedUnlessDigitDDigit ==
    (ParsedBonus /\ arg.t = "str" /\ ~HasDiceNotation(arg.s)) =>
        ret = SignedIntegerSum(arg.s)

\* C12 amended: a text is summed exactly when no letter d (either case)
\* stands directly before a digit; with one it is rejected, whatever
\* precedes the d
C12_SummedUnlessDBeforeDigit ==
    (ParsedBonus /\ arg.t = "str") =>
        /\ ~HasDiceLetter(arg.s) => ret = SignedIntegerSum(arg.s)
        /\ HasDiceLetter(arg.s) => ret = IntN(0)

C12_Witness ==
    /\ ParsedBonus
    /\ arg = Str(<<"-", "1", " ", "+", "3">>)
    /\ ret = IntN(2)

---------------------------------------------------------------------------
(* Properties: the armour class                                            *)

Rendered == pc = "rendered"

HasExplicitAC(a) == IsFiniteNumber(a.acValue) \/ IsFiniteNumber(a.acFlat)

\* the document reduced to its exported armour-class value and flat fields
OnlyExplicitAC(a) == [BaseActor EXCEPT !.acValue = a.acValue, !.acFlat = a.acFlat]

\* C1: a finite ac.value is returned as it is, otherwise a finite ac.flat is,
\* and nothing else in the document changes that result
C1_ExplicitACReturned ==
    Rendered =>
        /\ IsFiniteNumber(actor.acValue) => acValue = NumOf(actor.acValue)
        /\ (~IsFiniteNumber(actor.acValue) /\ IsFiniteNumber(actor.acFlat)) =>
              acValue = NumOf(actor.acFlat)
        /\ HasExplicitAC(actor) =>
              acValue = computeAC(OnlyExplicitAC(actor), dnd5eDerived(OnlyExplicitAC(actor)))

C1_Witness ==
    /\ Rendered
    /\ actor.acValue = NumI(17)
    /\ actor.effects = <<OverrideEffect>>
    /\ actor.acCalc = "custom"
    /\ Len(actor.items) = 2
    /\ actor.acBonus # Undefined
    /\ acValue = IntN(17)

\* every effect of the document, wherever it is attached and whatever its flags
RECURSIVE ItemsEffects(_)
ItemsEffects(items) ==
    IF items = <<>> THEN <<>> ELSE Head(items).effects \o ItemsEffects(Tail(items))

EveryEffect(a) == a.effects \o ItemsEffects(a.items)

ValueKeys == {KeyACValue, KeyACFlat, KeyUpperValue}

BonusKeys == {KeyACBonus, KeyLegacyBonus}

IsMode(ch, m) == ToNumber(ch.mode) = IntN(m)

IsValueOverride(ch) == ch.key \in ValueKeys /\ IsMode(ch, 5)

HasValueOverride(effects) ==
    \E i \in 1..Len(AllChanges(effects)) : IsValueOverride(AllChanges(effects)[i])

\* the equipped armours and shields of a document, by position in its items
ArmourSlots(a) ==
    {i \in 1..Len(a.items) :
        /\ a.items[i].equipped = Bool(TRUE)
        /\ a.items[i].type = "equipment"
        /\ IsFiniteNumber(a.items[i].armorValue)
        /\ a.items[i].subtype # "shield"}

ShieldSlots(a) ==
    {i \in 1..Len(a.items) :
        /\ a.items[i].equipped = Bool(TRUE)
        /\ a.items[i].type = "equipment"
        /\ IsFiniteNumber(a.items[i].armorValue)
        /\ a.items[i].subtype = "shield"}

\* base + magical bonus of an item, as an integer
SlotTotal(a, i) ==
    NumOf(a.items[i].armorValue).n + getArmorMagicBonus(a.items[i]).n

RECURSIVE SumOver(_, _, _)
SumOver(a, slots, i) ==
    IF i = 0 THEN 0
    ELSE SumOver(a, slots, i - 1) + (IF i \in slots THEN SlotTotal(a, i) ELSE 0)

\* the armour contribution: best armour's total, or 10, plus every shield
ExpectedArmour(a) ==
    (IF ArmourSlots(a) = {} THEN 10
     ELSE CHOOSE t \in {SlotTotal(a, i) : i \in ArmourSlots(a)} :
            \A i \in ArmourSlots(a) : SlotTotal(a, i) <= t)
    + SumOver(a, ShieldSlots(a), Len(a.items))

\* the first armour, in item order, among those with the greatest total
ChosenSlot(a) ==
    CHOOSE i \in ArmourSlots(a) :
        /\ \A j \in ArmourSlots(a) : SlotTotal(a, j) <= SlotTotal(a, i)
        /\ \A j \in ArmourSlots(a) : SlotTotal(a, j) = SlotTotal(a, i) => i <= j

\* the Dex contribution: the modifier, capped when the chosen armour has a cap
ExpectedDex(a, d) ==
    LET dex == d.abilityMods["dex"].n
        cap == a.items[ChosenSlot(a)].armorDex
    IN  IF ArmourSlots(a) = {} THEN dex
        ELSE IF cap \in {Undefined, Null, Str(<<>>)} THEN dex
        ELSE Min2(dex, ToNumber(cap).n)

\* the accumulated bonus: the four flat-bonus fields and the additive total
AccumulatedBonus(a) ==
    NumAdd(extractACFromEffects(a).add,
           NumAdd(NumAdd(parseFlatBonus(a.acBonus), parseFlatBonus(a.bonusesAcValue)),
                  NumAdd(parseFlatBonus(a.bonusesAcBonus), parseFlatBonus(a.bonusesAcAll))))

\* C2: with no exported value, no override-mode effect on the value/flat key
\* and no custom calc mode, the armour class is armour contribution + capped
\* Dex contribution + accumulated bonus
C2_HeuristicDefault ==
    (/\ Rendered
     /\ ~HasExplicitAC(actor)
     /\ ~HasValueOverride(EveryEffect(actor))
     /\ actor.acCalc # "custom") =>
        acValue = NumAdd(IntN(ExpectedArmour(actor) + ExpectedDex(actor, derived)),
                         AccumulatedBonus(actor))

Leather == Armour("light", NumI(11), Null, Undefined, TRUE)

C2_Witness ==
    /\ Rendered
    /\ actor.items = <<Leather, RingOfProtection>>
    /\ actor.abilities["dex"] = NumI(16)
    /\ actor.acBonus = Undefined
    /\ ~HasExplicitAC(actor)
    /\ actor.acCalc = "default"
    /\ derived.abilityMods["dex"] = IntN(3)
    /\ acValue = IntN(15)

---------------------------------------------------------------------------
(* Properties: the custom formula                                          *)

\* the arithmetic reading of a formula: integer literals, the known tokens
\* with their context values, + - * / and parentheses
RECURSIVE ArithLex(_, _)
ArithLex(formula, ctx) ==
    IF formula = <<>> THEN <<>>
    ELSE LET c == Head(formula)
         IN  IF c = " " THEN ArithLex(Tail(formula), ctx)
             ELSE IF c \in Digits THEN
                 LET r == DigitRun(formula, 1)
                 IN  (IF r > 1 /\ c = "0" THEN <<ErrTok>>
                      ELSE <<NumTok(IntN(DecVal(SubSeq(formula, 1, r))))>>)
                     \o ArithLex(SubSeq(formula, r + 1, Len(formula)), ctx)
             ELSE IF c \in DOMAIN ctx THEN <<NumTok(ctx[c])>> \o ArithLex(Tail(formula), ctx)
             ELSE IF c \in {"+", "-", "*", "/", "(", ")"} THEN
                 <<OpTok(c)>> \o ArithLex(Tail(formula), ctx)
             ELSE <<ErrTok>>

RECURSIVE ArithExpr(_, _)
RECURSIVE ArithExprRest(_, _, _)
RECURSIVE ArithTerm(_, _)
RECURSIVE ArithTermRest(_, _, _)
RECURSIVE ArithFactor(_, _)

ArithFactor(ts, p) ==
    IF p > Len(ts) THEN ParseFail
    ELSE IF ts[p].ty = "num" THEN [ok |-> TRUE, val |-> ts[p].val, pos |-> p + 1]
    ELSE IF IsOp(ts, p, {"("}) THEN
        LET r == ArithExpr(ts, p + 1)
        IN  IF r.ok /\ IsOp(ts, r.pos, {")"}) THEN [r EXCEPT !.pos = @ + 1]
            ELSE ParseFail
    ELSE ParseFail

ArithTermRest(ts, p, acc) ==
    IF IsOp(ts, p, {"*", "/"}) THEN
        LET r == ArithFactor(ts, p + 1)
        IN  IF ~r.ok THEN ParseFail
            ELSE ArithTermRest(ts, r.pos,
                     IF ts[p].op = "*" THEN NumMul(acc, r.val) ELSE NumDiv(acc, r.val))
    ELSE [ok |-> TRUE, val |-> acc, pos |-> p]

ArithTerm(ts, p) ==
    LET l == ArithFactor(ts, p)
    IN  IF ~l.ok THEN ParseFail ELSE ArithTermRest(ts, l.pos, l.val)

ArithExprRest(ts, p, acc) ==
    IF IsOp(ts, p, {"+", "-"}) THEN
        LET r == ArithTerm(ts, p + 1)
        IN  IF ~r.ok THEN ParseFail
            ELSE ArithExprRest(ts, r.pos,
                     IF ts[p].op = "+" THEN NumAdd(acc, r.val) ELSE NumSub(acc, r.val))
    ELSE [ok |-> TRUE, val |-> acc, pos |-> p]

ArithExpr(ts, p) ==
    LET l == ArithTerm(ts, p)
    IN  IF ~l.ok THEN ParseFail ELSE ArithExprRest(ts, l.pos, l.val)

\* [ok |-> the formula is well formed and its value is finite, val |-> it]
ArithValue(formula, ctx) ==
    LET ts == ArithLex(formula, ctx)
        r == ArithExpr(ts, 1)
    IN  IF r.ok /\ r.pos = Len(ts) + 1 /\ NumIsFinite(r.val)
        THEN [ok |-> TRUE, val |-> r.val]
        ELSE [ok |-> FALSE, val |-> NaN]

OnCustomPath ==
    /\ Rendered
    /\ ~HasExplicitAC(actor)
    /\ ~IsFiniteNumber(extractACFromEffects(actor).override)
    /\ actor.acCalc = "custom"
    /\ actor.acFormula.t = "str"

\* what is added to the evaluated result: the accumulated bonus, unless the
\* formula names the bonus token
BonusOnTop(a) ==
    IF HasSymbol(a.acFormula.s, "@attributes.ac.bonus") THEN IntN(0)
    ELSE AccumulatedBonus(a)

\* C3: a well-formed arithmetic formula with a finite value evaluates, on the
\* custom path, to its arithmetic value with each token read as its context
\* value, negative values included
C3_FormulaArithmeticValue ==
    (OnCustomPath /\ ArithValue(actor.acFormula.s, formulaCtx(actor, derived)).ok) =>
        /\ customFormulaAC(actor, derived).ok
        /\ NumEq(acValue,
                 NumAdd(ArithValue(actor.acFormula.s, formulaCtx(actor, derived)).val,
                        BonusOnTop(actor)))

\* the evaluation of the substituted formula, when it succeeds
Evaluated(a, d) == EvalFunction(Substitute(a.acFormula.s, formulaCtx(a, d)))

EvaluationSucceeds(a, d) ==
    /\ IsSafeExpr(Substitute(a.acFormula.s, formulaCtx(a, d)))
    /\ Evaluated(a, d).ok
    /\ NumIsFinite(Evaluated(a, d).val)

\* C4: on a successful evaluation the accumulated bonus is added to the
\* result exactly when the formula text does not contain @attributes.ac.bonus
C4_BonusAddedUnlessReferenced ==
    (OnCustomPath /\ EvaluationSucceeds(actor, derived)) =>
        /\ HasSymbol(actor.acFormula.s, "@attributes.ac.bonus") =>
              acValue = Evaluated(actor, derived).val
        /\ ~HasSymbol(actor.acFormula.s, "@attributes.ac.bonus") =>
              acValue = NumAdd(Evaluated(actor, derived).val, AccumulatedBonus(actor))

C4_Witness ==
    /\ OnCustomPath
    /\ actor.acFormula = Str(FormulaArmorDex)
    /\ actor.items = <<Armour("heavy", NumI(18), NumI(0), Undefined, TRUE)>>
    /\ derived.abilityMods["dex"] = IntN(4)
    /\ AccumulatedBonus(actor) = IntN(1)
    /\ Evaluated(actor, derived).val = IntN(18)
    /\ acValue = IntN(19)

\* the characters the evaluator may be handed
AllowedCharacter(c) ==
    c \in {"0", "1", "2", "3", "4", "5", "6", "7", "8", "9",
           "+", "-", "*", "/", "(", ")", "."} \cup WhiteSpace

\* a symbol of the formula that no substitution removes and that is not
\* arithmetic: a letter, an unknown token
HasForeignSymbol(formula) ==
    \E i \in 1..Len(formula) :
        formula[i] \notin CtxTokenSet /\ ~AllowedCharacter(formula[i])

\* C15: what is handed to the evaluator is not empty and holds only digits,
\* + - * / ( ) . and whitespace; a formula in which a letter or an unknown
\* token survives substitution is never evaluated
C15_OnlyArithmeticEvaluated ==
    /\ \A k \in 1..Len(evaluated) :
          /\ evaluated[k] # <<>>
          /\ \A i \in 1..Len(evaluated[k]) : AllowedCharacter(evaluated[k][i])
    /\ (Rendered /\ HasForeignSymbol(actor.acFormula.s)) => evaluated = <<>>

C15_Witness ==
    /\ Rendered
    /\ actor.acFormula = Str(<<"@abilities.dex.mod", "+", "1">>)
    /\ actor.abilities["dex"] = NumI(8)
    /\ evaluated = <<(<<"-", "1", "+", "1">>)>>

\* C16: when the evaluation of the custom formula fails, the armour class is
\* the heuristic value, the one the same document has without the custom mode
C16_FailureFallsBackToHeuristic ==
    (OnCustomPath /\ ~EvaluationSucceeds(actor, derived)) =>
        /\ acValue = NumAdd(IntN(ExpectedArmour(actor) + ExpectedDex(actor, derived)),
                            AccumulatedBonus(actor))
        /\ acValue = computeAC([actor EXCEPT !.acCalc = "default"], derived)

C16_Witness ==
    /\ OnCustomPath
    /\ actor.acFormula = Str(<<"1", "0", "+", "@attributes.ac.foo">>)
    /\ actor.abilities["dex"] = NumI(18)
    /\ ~EvaluationSucceeds(actor, derived)
    /\ acValue = IntN(19)

\* C17: with integers in every numeric field of the document, the armour
\* class is an integer
C17_ArmourClassIsInteger == Rendered => IsIntegerNum(acValue)

---------------------------------------------------------------------------
(* Properties: active effects                                              *)

\* an item counts when it is equipped or its attunement state is 2
ItemCounts(item) ==
    item.equipped = Bool(TRUE) \/ ToNumber(item.attunement) = IntN(2)

\* an effect qualifies when it is not disabled and it is the character's own,
\* or sits on an item that counts and is marked as transferring
OwnQualifies(ef) == ~ef.disabled

ItemEffectQualifies(item, ef) ==
    ~ef.disabled /\ ItemCounts(item) /\ (ef.transfer \/ ef.daeTransfer)

RECURSIVE QualifyingOfItems(_)
QualifyingOfItems(items) ==
    IF items = <<>> THEN <<>>
    ELSE LET Q(ef) == ItemEffectQualifies(Head(items), ef)
         IN  SelectSeq(Head(items).effects, Q) \o QualifyingOfItems(Tail(items))

QualifyingEffects(a) == SelectSeq(a.effects, OwnQualifies) \o QualifyingOfItems(a.items)

QualifyingOverrides(a) == SelectSeq(AllChanges(QualifyingEffects(a)), IsValueOverride)

\* C5: with no exported value, when a qualifying effect overrides the AC
\* value/flat key the armour class is the last such override, in effect and
\* change order, plus the accumulated bonus; armour, shields, Dexterity and
\* the custom formula play no part
C5_OverridePlusBonus ==
    (Rendered /\ ~HasExplicitAC(actor) /\ QualifyingOverrides(actor) # <<>>) =>
        acValue = NumAdd(
            parseFlatBonus(QualifyingOverrides(actor)[Len(QualifyingOverrides(actor))].value),
            AccumulatedBonus(actor))

RemoveAt(xs, i) == SubSeq(xs, 1, i - 1) \o SubSeq(xs, i + 1, Len(xs))

WithoutOwnEffect(a, i) == [a EXCEPT !.effects = RemoveAt(@, i)]

WithoutItemEffect(a, j, i) == [a EXCEPT !.items[j].effects = RemoveAt(@, i)]

ACOf(a) == computeAC(a, dnd5eDerived(a))

\* C6: an effect that does not qualify never changes the armour class: the
\* document without it has the same armour class
C6_OnlyQualifyingEffectsCount ==
    Rendered =>
        /\ \A i \in 1..Len(actor.effects) :
              ~OwnQualifies(actor.effects[i]) => ACOf(WithoutOwnEffect(actor, i)) = acValue
        /\ \A j \in 1..Len(actor.items) : \A i \in 1..Len(actor.items[j].effects) :
              ~ItemEffectQualifies(actor.items[j], actor.items[j].effects[i]) =>
                  ACOf(WithoutItemEffect(actor, j, i)) = acValue

\* the scan of the collected effects, up to and including change i
ScanUpTo(a, i) == ScanChanges(SubSeq(AllChanges(collectTransferEffects(a)), 1, i))

\* C7: in the scan an override-mode change on the bonus key replaces the
\* additive total and leaves the override alone; an add-mode change on the
\* bonus key or on the value/flat key adds to the additive total
C7_ScanOfChanges ==
    Rendered =>
        \A i \in 1..Len(AllChanges(collectTransferEffects(actor))) :
            LET ch == AllChanges(collectTransferEffects(actor))[i]
                before == ScanUpTo(actor, i - 1)
                after == ScanUpTo(actor, i)
            IN  /\ (ch.key \in BonusKeys /\ IsMode(ch, 5)) =>
                      /\ after.add = parseFlatBonus(ch.value)
                      /\ after.override = before.override
                /\ (ch.key \in BonusKeys \cup ValueKeys /\ IsMode(ch, 2)) =>
                      /\ after.add = NumAdd(before.add, parseFlatBonus(ch.value))
                      /\ after.override = before.override

C7_Witness ==
    /\ Rendered
    /\ actor.effects = <<Effect(FALSE, FALSE,
            <<Change(KeyACBonus, NumI(AE_MODE_ADD), NumI(1)),
              Change(KeyACBonus, NumI(AE_MODE_OVERRIDE), NumI(5)),
              Change(KeyACValue, NumI(AE_MODE_ADD), Str(<<"2">>))>>)>>
    /\ actor.acCalc = "default"
    /\ extractACFromEffects(actor) = [add |-> IntN(7), override |-> Null]
    /\ acValue = IntN(18)

---------------------------------------------------------------------------
(* Properties: the render as a function of the document                    *)

\* a render leaves every loaded document as it was, and a payload that was
\* rendered before shows the same statistics and armour class again
RenderKeepsDocuments ==
    \A i \in 1..Len(allPayloads) :
        /\ allPayloads'[i] = allPayloads[i]
        /\ shown[i].done => shown'[i] = shown[i]

\* payloads that hold the same document show the same
SameDocumentSameSheet ==
    \A i, j \in 1..Len(allPayloads) :
        (shown[i].done /\ shown[j].done /\ allPayloads[i] = allPayloads[j]) =>
            shown[i] = shown[j]

---------------------------------------------------------------------------
(* Properties: documents with missing or mistyped fields                   *)

RenderEnded == pc \in {"rendered", "raised"}

\* the document with a field that should be a list and is not one replaced
\* by its neutral default, no list at all
Neutralised(a) ==
    [a EXCEPT !.itemsIs = IF @ = "array" THEN @ ELSE "missing",
              !.effectsIs = IF @ = "array" THEN @ ELSE "missing"]

\* C14: whatever is missing, null or mistyped in the document, the render
\* completes without raising and returns what it returns for the document
\* with the bad field at its neutral default
C14_DefensiveLookups ==
    RenderEnded =>
        /\ pc = "rendered"
        /\ derived = dnd5eDerived(Neutralised(actor))
        /\ acValue = computeAC(Neutralised(actor), dnd5eDerived(Neutralised(actor)))

\* C19: the level of DerivedStats is a non-negative integer
C19_LevelIsNonNegativeInteger ==
    Rendered => (IsIntegerNum(derived.level) /\ ~IsNeg(derived.level))

---------------------------------------------------------------------------
(* Properties: the envelope of a payload                                   *)

\* an envelope field is present when it holds a document (or any value other
\* than null, false, 0 and the empty string)
Present(v) == v \notin {Undefined, Null, Bool(FALSE), NumI(0), Str(<<>>)}

\* C18: actorFromPayload returns the actor field when present, else the
\* data.actor field, else the document field, else the payload itself, in
\* that priority when several are present
C18_EnvelopePriority ==
    fn = "actorFromPayload" =>
        /\ Present(arg.actor) => ret = arg.actor
        /\ (~Present(arg.actor) /\ Present(arg.dataActor)) => ret = arg.dataActor
        /\ (~Present(arg.actor) /\ ~Present(arg.dataActor) /\ Present(arg.document)) =>
              ret = arg.document
        /\ (~Present(arg.actor) /\ ~Present(arg.dataActor) /\ ~Present(arg.document)) =>
              ret = arg.self

C18_Witness ==
    /\ fn = "actorFromPayload"
    /\ arg.actor = Null
    /\ arg.dataActor = Obj(2)
    /\ arg.document = Obj(3)
    /\ ret = Obj(2)

---------------------------------------------------------------------------
(* Properties: the armour contribution                                     *)

EquippedOnly(a) == [a EXCEPT !.items = SelectSeq(@, LAMBDA i : i.equipped = Bool(TRUE))]

\* the armours whose base + magical bonus no other equipped armour exceeds
BestSlots(a) ==
    {i \in ArmourSlots(a) : \A j \in ArmourSlots(a) : SlotTotal(a, j) <= SlotTotal(a, i)}

\* C20: the armour chosen maximises base + magical bonus among the equipped
\* armours, every equipped shield adds its base + magical bonus to the shield
\* total, the armour contribution is the sum of the two, and unequipped
\* items contribute nothing
C20_BestArmourPlusShields ==
    fn = "computeACArmorParts" =>
        /\ ret.hasBest = (ArmourSlots(actor) # {})
        /\ ret.hasBest =>
              \E i \in BestSlots(actor) :
                  /\ ret.armourTotal = IntN(SlotTotal(actor, i))
                  /\ ret.dexCap = actor.items[i].armorDex
        /\ ret.shieldTotal = IntN(SumOver(actor, ShieldSlots(actor), Len(actor.items)))
        /\ ret.acArmor = NumAdd(ret.armourTotal, ret.shieldTotal)
        /\ ret = computeACArmorParts(EquippedOnly(actor))

C20_Witness ==
    /\ fn = "computeACArmorParts"
    /\ actor.items = FullLoadout
    /\ ret.armourTotal = IntN(15)
    /\ ret.shieldTotal = IntN(5)
    /\ ret.acArmor = IntN(20)

---------------------------------------------------------------------------
(* Properties: the Dex contribution                                        *)

HasCap(a) ==
    /\ ArmourSlots(a) # {}
    /\ a.items[ChosenSlot(a)].armorDex \notin {Undefined, Null, Str(<<>>)}

\* C21: the Dex contribution is the full modifier without an armour or
\* without a cap on the chosen armour, else the smaller of modifier and cap;
\* it never exceeds the cap, and a negative modifier passes unchanged
C21_DexContribution ==
    Rendered =>
        /\ acValue = IntN(ExpectedDex(actor, derived))
        /\ ~HasCap(actor) => acValue = derived.abilityMods["dex"]
        /\ HasCap(actor) =>
              /\ ~NumLess(ToNumber(actor.items[ChosenSlot(actor)].armorDex), acValue)
              /\ IsNeg(derived.abilityMods["dex"]) => acValue = derived.abilityMods["dex"]

C21_Witness ==
    /\ Rendered
    /\ actor.abilities["dex"] = NumI(18)
    /\ actor.items = <<Armour("medium", NumI(14), NumI(2), Undefined, TRUE),
                       Armour("heavy", NumI(18), NumI(0), Undefined, TRUE)>>
    /\ acValue = IntN(0)

---------------------------------------------------------------------------
(* Properties: the order of the item list                                  *)

\* the armour class with the first of the tying armours chosen
FirstOfTiedChosen(i) ==
    shown[i].done =>
        shown[i].ac = NumAdd(IntN(ExpectedArmour(allPayloads[i])
                                  + ExpectedDex(allPayloads[i], shown[i].derived)),
                             AccumulatedBonus(allPayloads[i]))

HasTie(a) ==
    \E i, j \in ArmourSlots(a) :
        /\ i # j
        /\ SlotTotal(a, i) = SlotTotal(a, j)
        /\ \A k \in ArmourSlots(a) : SlotTotal(a, k) <= SlotTotal(a, i)

ItemChangesAC(a) ==
    \E i \in 1..Len(a.items) : \E e \in 1..Len(a.items[i].effects) :
        \E c \in 1..Len(a.items[i].effects[e].changes) :
            a.items[i].effects[e].changes[c].key \in ValueKeys \cup BonusKeys

BothShown == shown[1].done /\ shown[2].done

\* C27: of armours that tie on base + magic the first in the item list is
\* chosen and its Dex cap applied; without such a tie the armour class does
\* not depend on the order of the item list
C27_OrderMattersOnlyOnTie ==
    /\ FirstOfTiedChosen(1) /\ FirstOfTiedChosen(2)
    /\ (BothShown /\ ~HasTie(allPayloads[1])) => shown[1].ac = shown[2].ac

\* C27 amended: without a tie and without an item effect that changes an
\* armour-class key the armour class does not depend on the order
C27_OrderMattersOnlyOnTieOrEffects ==
    /\ FirstOfTiedChosen(1) /\ FirstOfTiedChosen(2)
    /\ (BothShown /\ ~HasTie(allPayloads[1]) /\ ~ItemChangesAC(allPayloads[1])) =>
          shown[1].ac = shown[2].ac

C27_Witness ==
    /\ BothShown
    /\ allPayloads[1].items = <<Breastplate, MagicStudded>>
    /\ allPayloads[2].items = <<MagicStudded, Breastplate>>
    /\ shown[1].ac = IntN(16)
    /\ shown[2].ac = IntN(18)

---------------------------------------------------------------------------
(* Properties: the two computeAC implementations                           *)

ChangesAC(effects) ==
    \E i \in 1..Len(AllChanges(effects)) :
        AllChanges(effects)[i].key \in ValueKeys \cup BonusKeys

NoMagic(item) ==
    /\ item.armorMagicalBonus \in {Undefined, Null, NumI(0)}
    /\ item.armorMagicBonus \in {Undefined, Null, NumI(0)}
    /\ item.sysMagicalBonus \in {Undefined, Null, NumI(0)}
    /\ item.sysMagicBonus \in {Undefined, Null, NumI(0)}

\* no AC-affecting active effect, no magical bonus, no bonuses.ac field, no
\* custom calc mode
PlainDocument(a) ==
    /\ ~ChangesAC(QualifyingEffects(a))
    /\ \A i \in 1..Len(a.items) : NoMagic(a.items[i])
    /\ a.bonusesAcValue = Undefined
    /\ a.bonusesAcBonus = Undefined
    /\ a.bonusesAcAll = Undefined
    /\ a.acCalc # "custom"

BothComputed == Rendered /\ fn = "computeAC"

\* C28: on a document with no AC-affecting active effect, no magical bonus,
\* no bonuses.ac field and no custom calc mode, the computeAC of src/app.js
\* and the computeAC of src/unnamed/part_000 return the same armour class
C28_SameArmourClass ==
    (BothComputed /\ PlainDocument(actor)) => ret = acValue

---------------------------------------------------------------------------
(* Properties: the skill totals                                            *)

\* the modifier of the governing ability, or 0
ExpectedBase(sk, d) ==
    IF sk.ability.t = "str" /\ Len(sk.ability.s) = 1 /\ sk.ability.s[1] \in AbilityNames
    THEN d.abilityMods[sk.ability.s[1]].n
    ELSE 0

\* the proficiency component of a rank n/m
ExpectedProficiency(rank, pb) ==
    IF rank.n <= 0 THEN 0
    ELSE IF rank = Fin(1, 2) THEN pb \div 2
    ELSE IF rank = IntN(1) THEN pb
    ELSE IF rank = IntN(2) THEN 2 * pb
    ELSE (rank.n * pb) \div rank.d

ExpectedSkillTotal(sk, a, d) ==
    ExpectedBase(sk, d)
    + ExpectedProficiency(ToNumber(Coalesce(sk.value, NumI(0))), d.prof.n)
    + parseFlatBonus(sk.check).n
    + parseFlatBonus(a.bonusesAbilitiesSkill).n
    + parseFlatBonus(a.bonusesSkillsCheck).n

\* C22: every skill total is ability modifier (0 when the ability is absent
\* or not one of the six) + proficiency component of the rank + the three
\* parsed flat bonuses
C22_SkillTotals ==
    Rendered =>
        \A i \in 1..Len(actor.skills) :
            derived.skillTotals[actor.skills[i].key]
                = NumI(ExpectedSkillTotal(actor.skills[i], actor, derived))

---------------------------------------------------------------------------
(* Properties: the page                                                    *)

\* C23: a click on a painted roster entry makes the sheet display the
\* rendering of that entry's payload, also for a payload without any id and
\* for two payloads that share an id
C23_ClickShowsEntry ==
    [][\A n \in 1..Len(roster) : Click(n) => sheet' = <<roster[n].payload>>]_vars

NoInitialiseInFlight == \A t \in 1..Len(tasks) : tasks[t].kind # "initialise"

RosterPayloads == {roster[i].payload : i \in 1..Len(roster)}

LoadedPayloads == {allPayloads[i].payload : i \in 1..Len(allPayloads)}

NormalisedSearch == Trim(Lower(searchText))

MatchingPayloads ==
    {allPayloads[i].payload :
        i \in {j \in 1..Len(allPayloads) :
                  NormalisedSearch = <<>>
                  \/ Includes(allPayloads[j].corpus, NormalisedSearch)}}

\* C24: once no initialise is in flight the roster shows exactly the loaded
\* payloads whose corpus contains the normalised search text
C24_RosterIsSearchResult ==
    NoInitialiseInFlight =>
        /\ RosterPayloads = MatchingPayloads
        /\ Len(roster) = Cardinality({j \in 1..Len(allPayloads) :
                                         allPayloads[j].payload \in MatchingPayloads})

\* the payloads of the files of a selection that parse, in selection order
RECURSIVE Parsed(_)
Parsed(files) ==
    IF files = <<>> THEN <<>>
    ELSE (IF Head(files).parses THEN <<Head(files).payload>> ELSE <<>>)
         \o Parsed(Tail(files))

IsPrefix(xs, ys) == Len(xs) <= Len(ys) /\ SubSeq(ys, 1, Len(xs)) = xs

AtLastFile(t) == tasks[t].kind = "import" /\ tasks[t].k = Len(tasks[t].files)

ImportAppends ==
    /\ IsPrefix(stored.list, stored'.list)
    /\ \A t \in 1..Len(tasks) :
          (AtLastFile(t) /\ ReadFile(t)) =>
              stored'.list = stored.list \o Parsed(tasks[t].files)
    /\ stored' # stored => \E t \in 1..Len(tasks) : AtLastFile(t) /\ ReadFile(t)

LoadableEntries == {i \in 1..Len(server.entries) : server.entries[i].kind = "ok"}

\* C26: a manifest entry that cannot be loaded is skipped, and every other
\* entry's payload ends up in allPayloads with the stored payloads
C26_UnloadableEntrySkipped ==
    (NoInitialiseInFlight /\ server.ok) =>
        /\ \A i \in LoadableEntries : server.entries[i].payload \in LoadedPayloads
        /\ \A i \in 1..Len(stored.list) : stored.list[i] \in LoadedPayloads

=============================================================================
